---- MODULE Spec2Model ----
(***************************************************************************)
(* A model of the chatbot-api gateway: the streaming generator of the     *)
(* chat route, the chat route with its request validation and provider    *)
(* calls, the adapter factory and model registry, the shutdown of the     *)
(* service, the authentication middleware with the token blacklist and    *)
(* the permission matrix, and the three Cognito trigger lambdas.  Each    *)
(* subsystem has its own specification over the shared variables; the     *)
(* other subsystems' variables stay unchanged in it.                      *)
(***************************************************************************)

EXTENDS Integers, Sequences, FiniteSets, TLC

VARIABLES
    \* ---- _stream_chat_completion (src/src/api/routes/chat.py) ----
    sPc,        \* position of the async generator
    sModel,     \* chat_request.model_id
    sFrames,    \* the frames yielded so far, in order
    sYielded,   \* the fragments the adapter's stream has produced so far
    sLog,       \* the error text logged by the except branch (Null: none)
    \* ---- DefineAuthChallenge lambda (src/lambdas/auth/define_auth.py) ----
    dPc,        \* "call": event received, "returned": handler returned
    dSession,   \* event['request']['session']
    dResponse,  \* event['response']
    \* ---- ModelRegistry and AdapterFactory (src/src/config/models.py,
    \*      src/src/models/adapter_factory.py), the chat route ----
    models,     \* ModelRegistry._models: model_id -> ModelConfig
    adapters,   \* AdapterFactory._adapters, in insertion order: <<[key, id]>>
    clients,    \* every adapter instance constructed so far; its id is its index
    closing,    \* close_all: the position of its loop over _adapters.values()
    issued,     \* <<key, model_id, id>> of the adapters get_adapter returned since the cache was last cleared
    last,       \* the last operation and what it returned
    \* ---- AuthenticationMiddleware, TokenBlacklist, the logout route
    \*      (src/src/auth/middleware.py, src/src/api/routes/auth.py) ----
    aCfg,       \* the settings and the middleware the application was built with
    blacklist,  \* TokenBlacklist._blacklisted_tokens
    aLast,      \* the last request and its outcome
    aFailures,  \* <<status, detail>> of every rejection of a presented bearer token
    \* ---- VerifyAuthChallenge lambda (src/lambdas/auth/verify_auth.py) ----
    vPc,        \* "call": event received, "returned": handler returned
    vExpected,  \* event['request']['privateChallengeParameters']['code']
    vProvided,  \* event['request']['challengeAnswer']
    vResponse,  \* event['response']
    \* ---- create_chat_completion with request validation and the provider call (src/src/api/models.py, src/src/api/routes/chat.py, the adapters) ----
    cReq,       \* the body of the last POST /chat/completions
    cAnswer,    \* what the provider answered to the call made for it
    cSent,      \* the adapter method called for it and what it sent to the provider
    cResp,      \* the response the client got
    cLog,       \* the log records written while it was handled
    \* ---- run_server.py and the lifespan of the application (src/run_server.py, src/src/api/main.py) ----
    svcPhase,   \* "serving", "interrupted", "closing" or "exited"
    svcCloseCalls,\* how often close_all has been called
    \* ---- check_endpoint_permission (src/src/auth/middleware.py) ----
    pEndpoint,  \* the endpoint of the last call
    pMethod,    \* its method
    pRole,      \* its user_role (Null: no call yet)
    pResult,    \* what it returned
    \* ---- One login session of the passwordless flow: the three triggers in turn (src/lambdas/auth/) ----
    lPc,        \* the trigger Cognito invokes next, or how the session ended
    lSession,   \* event['request']['session'] of the next DefineAuthChallenge
    lCode,      \* privateChallengeParameters['code'] of the round
    lRounds,    \* the code and the answer of every verified round
    \* ---- requests in flight on the event loop (src/api/routes/chat.py) ----
    flight,     \* request id -> position of its handler, the model it names, the adapter it holds
    \* ---- an adapter reading a provider stream (openai_adapter.py, google_adapter.py) ----
    tPc,        \* idle, reading, ended or raised
    tVariant,   \* openai_compatible or google
    tInput,     \* the lines the provider sends
    tPos,       \* index of the next line to read
    tOut,       \* the fragments the adapter has yielded
    tFrames,    \* the frames the gateway has sent for them
    \* ---- GoogleAdapter._convert_messages (google_adapter.py) ----
    gPc,        \* idle or converted
    gMessages,  \* the messages of the request
    gPayload,   \* contents and systemInstruction of the Gemini request
    \* ---- CreateAuthChallenge (lambdas/auth/create_auth.py) ----
    kPc,        \* idle, returned or raised
    kIn,        \* the event and the outcomes of random.choices and of the dispatch
    kOut,       \* what the handler did: response, mail, log
    \* ---- AdapterFactory.health_check_all (adapter_factory.py) ----
    hPc,        \* idle, checking or done
    hModels,    \* the registry, in the order of registration
    hGroups,    \* adapter_to_models: the groups still to be checked
    hStatus,    \* health_status: provider -> entry
    hProbes,    \* the health_check calls made, with what they returned
    hCache,     \* the factory: its cache and the clients constructed
    \* ---- UserManager (auth/user_manager.py) ----
    uStore,     \* _users, _sessions and _user_sessions
    uLast,      \* the last operation and what it returned
    \* ---- one user and the gateway tokens issued to them (api/routes/auth.py) ----
    oLogin,     \* role and institution that the login callback assigned
    oToken,     \* the claims of the token the user holds
    oLast       \* the last auth operation and its status

streamVars == <<sPc, sModel, sFrames, sYielded, sLog>>
defineVars == <<dPc, dSession, dResponse>>
factoryVars == <<models, adapters, clients, closing, issued, last>>
authVars == <<aCfg, blacklist, aLast, aFailures>>
verifyVars == <<vPc, vExpected, vProvided, vResponse>>
chatVars == <<cReq, cAnswer, cSent, cResp, cLog>>
serviceVars == <<svcPhase, svcCloseCalls>>
permVars == <<pEndpoint, pMethod, pRole, pResult>>
loginVars == <<lPc, lSession, lCode, lRounds>>
flightVars == <<flight>>
parseVars == <<tPc, tVariant, tInput, tPos, tOut, tFrames>>
convertVars == <<gPc, gMessages, gPayload>>
createVars == <<kPc, kIn, kOut>>
healthVars == <<hPc, hModels, hGroups, hStatus, hProbes, hCache>>
userVars == <<uStore, uLast>>
onboardVars == <<oLogin, oToken, oLast>>
vars == <<sPc, sModel, sFrames, sYielded, sLog, dPc, dSession, dResponse,
          models, adapters, clients, closing, issued, last,
          aCfg, blacklist, aLast, aFailures,
          vPc, vExpected, vProvided, vResponse,
          cReq, cAnswer, cSent, cResp, cLog,
          svcPhase, svcCloseCalls,
          pEndpoint, pMethod, pRole, pResult,
          lPc, lSession, lCode, lRounds,
          flight,
          tPc, tVariant, tInput, tPos, tOut, tFrames,
          gPc, gMessages, gPayload,
          kPc, kIn, kOut,
          hPc, hModels, hGroups, hStatus, hProbes, hCache,
          uStore, uLast,
          oLogin, oToken, oLast>>

\* Python None / JSON null, and a key that is not present in a dict.
Null == "null"
Absent == "absent"

(***************************************************************************)
(* Bounds                                                                  *)
(***************************************************************************)
MaxFragments == 3
MaxSession == 2
MaxAdapters == 2
MaxCode == 2
MaxUsage == 1
MaxRounds == 2

(***************************************************************************)
(* The streaming generator                                                 *)
(***************************************************************************)
StreamModelIds == {"m1", "m2"}
Fragments == {"", "Hel", "lo"}
StreamErrors == {"HTTPStatusError: 401 Unauthorized", "ReadTimeout"}

\* chat.py 141-154: the initial chunk, delta {"role": "assistant", "content": ""}.
InitialChunk(model) ==
    [kind |-> "chunk", model |-> model, role |-> "assistant", content |-> "",
     finish_reason |-> Null, message |-> Absent, type |-> Absent]

\* chat.py 158-171: one chunk per fragment, delta {"content": content_chunk}.
ContentChunk(model, c) ==
    [kind |-> "chunk", model |-> model, role |-> Absent, content |-> c,
     finish_reason |-> Null, message |-> Absent, type |-> Absent]

FinalChunkNoStop(model) ==
    [kind |-> "chunk", model |-> model, role |-> Absent, content |-> Absent,
     finish_reason |-> Null, message |-> Absent, type |-> Absent]

\* chat.py 174-187: the final chunk, delta {} and finish_reason "stop".
FinalChunk(model) ==
    [kind |-> "chunk", model |-> model, role |-> Absent, content |-> Absent,
     finish_reason |-> "stop", message |-> Absent, type |-> Absent]

ErrorChunkLeak(model, e) ==
    [kind |-> "error", model |-> model, role |-> Absent, content |-> Absent,
     finish_reason |-> Absent, message |-> e, type |-> "server_error"]

\* chat.py 199-209: the error chunk; the exception e is logged, not sent.
ErrorChunk(model, e) ==
    [kind |-> "error", model |-> model, role |-> Absent, content |-> Absent,
     finish_reason |-> Absent, message |-> "Stream interrupted due to error",
     type |-> "server_error"]

\* chat.py 188 and 210: "data: [DONE]\n\n".
DoneFrame ==
    [kind |-> "done", model |-> Absent, role |-> Absent, content |-> Absent,
     finish_reason |-> Absent, message |-> Absent, type |-> Absent]

StreamInit ==
    /\ sPc = "idle"
    /\ sModel = Null
    /\ sFrames = <<>>
    /\ sYielded = <<>>
    /\ sLog = Null

\* chat.py 65-69 and 133-137: a stream=true request whose adapter was resolved
\* gets a StreamingResponse over a fresh generator.
StreamOpen(model) ==
    /\ sPc \in {"idle", "done"}
    /\ sPc' = "new"
    /\ sModel' = model
    /\ sFrames' = <<>>
    /\ sYielded' = <<>>
    /\ sLog' = Null

\* chat.py 139-154: the first yield.
StreamInitial ==
    /\ sPc = "new"
    /\ sFrames' = Append(sFrames, InitialChunk(sModel))
    /\ sPc' = "streaming"
    /\ UNCHANGED <<sModel, sYielded, sLog>>

\* chat.py 157-171: the adapter's stream produces a fragment, which is forwarded.
StreamDelta(c) ==
    /\ sPc = "streaming"
    /\ Len(sYielded) < MaxFragments
    /\ sYielded' = Append(sYielded, c)
    /\ sFrames' = Append(sFrames, ContentChunk(sModel, c))
    /\ UNCHANGED <<sPc, sModel, sLog>>

\* chat.py 173-187: the adapter's stream ends; the final chunk is yielded.
StreamEnd ==
    /\ sPc = "streaming"
    /\ sFrames' = Append(sFrames, FinalChunk(sModel))
    /\ sPc' = "final_sent"
    /\ UNCHANGED <<sModel, sYielded, sLog>>

\* chat.py 190-209: the adapter's stream raises e (on its first or on a later
\* step); the except branch logs str(e) and yields the error chunk.
StreamRaise(e) ==
    /\ sPc = "streaming"
    /\ sLog' = e
    /\ sFrames' = Append(sFrames, ErrorChunk(sModel, e))
    /\ sPc' = "error_sent"
    /\ UNCHANGED <<sModel, sYielded>>

\* chat.py 188 (after the final chunk) and 210 (after the error chunk).
StreamDone ==
    /\ sPc \in {"final_sent", "error_sent"}
    /\ sFrames' = Append(sFrames, DoneFrame)
    /\ sPc' = "done"
    /\ UNCHANGED <<sModel, sYielded, sLog>>

(***************************************************************************)
(* DefineAuthChallenge                                                     *)
(***************************************************************************)
\* JSON values of the Cognito event.
JTrue == "true"
JFalse == "false"

ChallengeNames == {"CUSTOM_CHALLENGE", "SRP_A", Absent}
ChallengeResults == {JTrue, JFalse, Absent}
SessionEntries == [challengeName : ChallengeNames, challengeResult : ChallengeResults]

RECURSIVE SeqsUpTo(_, _)
SeqsUpTo(S, n) ==
    IF n = 0 THEN {<<>>}
    ELSE LET shorter == SeqsUpTo(S, n - 1)
         IN  shorter \cup {Append(s, x) : s \in {t \in shorter : Len(t) = n - 1}, x \in S}

\* event['request']['session']: null (isNull), or the list of the earlier rounds.
NullSession == [isNull |-> TRUE, list |-> <<>>]
SessionInputs ==
    {NullSession} \cup {[isNull |-> FALSE, list |-> s] : s \in SeqsUpTo(SessionEntries, MaxSession)}

\* The response Cognito hands to the trigger: every field null.
EmptyResponse == [challengeName |-> Null, issueTokens |-> Null, failAuthentication |-> Null]

\* define_auth.py 17-19: whether the loop finds a successful CUSTOM_CHALLENGE.
HasSuccessfulChallenge(session) ==
    /\ ~session.isNull
    /\ Len(session.list) > 0
    /\ \E i \in 1..Len(session.list) :
          /\ session.list[i].challengeName = "CUSTOM_CHALLENGE"
          /\ session.list[i].challengeResult = JTrue

DefineHandlerAlwaysChallenge(session, response) ==
    [response EXCEPT !.challengeName = "CUSTOM_CHALLENGE",
                     !.issueTokens = JFalse,
                     !.failAuthentication = JFalse]

\* define_auth.py 7-29: handler, as a function of the session and the response.
DefineHandler(session, response) ==
    IF HasSuccessfulChallenge(session)
    THEN [response EXCEPT !.issueTokens = JTrue, !.failAuthentication = JFalse]
    ELSE [response EXCEPT !.challengeName = "CUSTOM_CHALLENGE",
                          !.issueTokens = JFalse,
                          !.failAuthentication = JFalse]

DefineInit ==
    /\ dPc = "idle"
    /\ dSession = NullSession
    /\ dResponse = EmptyResponse

\* Cognito invokes the trigger with the session history of the login attempt.
DefineInvoke(session) ==
    /\ dPc \in {"idle", "returned"}
    /\ dPc' = "call"
    /\ dSession' = session
    /\ dResponse' = EmptyResponse

\* define_auth.py 7-29.
DefineReturn ==
    /\ dPc = "call"
    /\ dResponse' = DefineHandler(dSession, dResponse)
    /\ dPc' = "returned"
    /\ UNCHANGED dSession


(***************************************************************************)
(* ModelRegistry                                                           *)
(***************************************************************************)
\* Strings that the code concatenates or compares by prefix are sequences of
\* characters.
ModelIds == {"m1", "m2"}
\* "m1" is registered at start-up (models.py 113-114); "m2" is registered, and
\* registered again with another configuration, while the service runs.
RegisterIds == {"m2"}
ProviderP == <<"P">>
ProviderQ == <<"Q">>
\* api_base None (falsy, like the empty string)
NoBase == <<>>
BaseX == <<"h", "/", "x">>
DefaultLiteral == <<"d", "e", "f", "a", "u", "l", "t">>

\* The ModelConfig entries that register_model is called with (models.py 13-33).
Catalogue ==
    { [client_type |-> "openai_compatible", provider |-> ProviderP, api_base |-> BaseX,
       api_key_env |-> "OPENAI_API_KEY", enabled |-> TRUE],
      [client_type |-> "google", provider |-> ProviderQ, api_base |-> NoBase,
       api_key_env |-> "GOOGLE_API_KEY", enabled |-> TRUE],
      [client_type |-> "anthropic", provider |-> ProviderQ, api_base |-> NoBase,
       api_key_env |-> "ANTHROPIC_API_KEY", enabled |-> TRUE] }

\* models.py 116-118: self._models[model.model_id] = model
register_model(reg, mid, cfg) == (mid :> cfg) @@ reg

\* models.py 120-122: self._models.get(model_id); callers test membership first.
get_model(reg, mid) == reg[mid]

disable_model_enables(reg, mid) ==
    IF mid \in DOMAIN reg THEN [reg EXCEPT ![mid].enabled = TRUE] ELSE reg

\* models.py 145-150: disable_model, the registry afterwards.
disable_model(reg, mid) ==
    IF mid \in DOMAIN reg THEN [reg EXCEPT ![mid].enabled = FALSE] ELSE reg

\* models.py 152-157: enable_model, the registry afterwards.
enable_model(reg, mid) ==
    IF mid \in DOMAIN reg THEN [reg EXCEPT ![mid].enabled = TRUE] ELSE reg

(***************************************************************************)
(* AdapterFactory                                                          *)
(***************************************************************************)
\* adapter_factory.py 30: f"{provider}:{api_base or 'default'}"
AdapterKey(cfg) ==
    cfg.provider \o <<":">> \o (IF cfg.api_base = <<>> THEN DefaultLiteral ELSE cfg.api_base)

\* adapter_factory.py 33: adapter_key in self._adapters
InCache(cache, key) == \E i \in 1..Len(cache) : cache[i].key = key

\* adapter_factory.py 34: self._adapters[adapter_key]
CacheGet(cache, key) == cache[CHOOSE i \in 1..Len(cache) : cache[i].key = key].id

\* adapter_factory.py 77: self._adapters[adapter_key] = adapter (a dict keeps the
\* position of a key that is already present)
CachePut(cache, key, id) ==
    IF InCache(cache, key)
    THEN [i \in 1..Len(cache) |-> IF cache[i].key = key THEN [key |-> key, id |-> id] ELSE cache[i]]
    ELSE Append(cache, [key |-> key, id |-> id])

\* openai_adapter.py 10-28 and google_adapter.py 18-33: the instance a
\* constructor builds from adapter_config.
NewClient(cfg) ==
    [variant |-> cfg.client_type,
     api_base |-> IF cfg.client_type = "google" THEN NoBase ELSE cfg.api_base,
     api_key_env |-> cfg.api_key_env,
     closed |-> FALSE]

\* None as the returned adapter
NoAdapter == 0

get_adapter_nocache(reg, cache, insts, mid, fail) ==
    LET same == [ret |-> NoAdapter, raised |-> FALSE, adapters |-> cache, clients |-> insts]
    IN  IF mid \notin DOMAIN reg \/ ~reg[mid].enabled THEN same
        ELSE LET cfg == get_model(reg, mid)
                 key == AdapterKey(cfg)
                 id == Len(insts) + 1
             IN  IF cfg.client_type = "anthropic" THEN same
                 ELSE IF fail THEN [same EXCEPT !.raised = (cfg.client_type = "openai_compatible")]
                 ELSE [ret |-> id, raised |-> FALSE,
                       adapters |-> CachePut(cache, key, id),
                       clients |-> Append(insts, NewClient(cfg))]

get_adapter_ignore_enabled(reg, cache, insts, mid, fail) ==
    LET same == [ret |-> NoAdapter, raised |-> FALSE, adapters |-> cache, clients |-> insts]
    IN  IF mid \notin DOMAIN reg THEN same
        ELSE LET cfg == get_model(reg, mid)
                 key == AdapterKey(cfg)
                 id == Len(insts) + 1
             IN  IF InCache(cache, key) THEN [same EXCEPT !.ret = CacheGet(cache, key)]
                 ELSE IF cfg.client_type = "anthropic" THEN same
                 ELSE IF fail THEN [same EXCEPT !.raised = (cfg.client_type = "openai_compatible")]
                 ELSE [ret |-> id, raised |-> FALSE,
                       adapters |-> CachePut(cache, key, id),
                       clients |-> Append(insts, NewClient(cfg))]

\* adapter_factory.py 20-79: get_adapter.  `fail` says whether the adapter's
\* constructor raises.  The result: the adapter returned (NoAdapter: None),
\* whether an exception leaves get_adapter, and the cache and the instances
\* afterwards.
get_adapter(reg, cache, insts, mid, fail) ==
    LET same == [ret |-> NoAdapter, raised |-> FALSE, adapters |-> cache, clients |-> insts]
    IN  \* 24-27
        IF mid \notin DOMAIN reg \/ ~reg[mid].enabled THEN same
        ELSE LET cfg == get_model(reg, mid)
                 key == AdapterKey(cfg)
                 id == Len(insts) + 1
             IN  \* 33-34
                 IF InCache(cache, key) THEN [same EXCEPT !.ret = CacheGet(cache, key)]
                 \* 50-52
                 ELSE IF cfg.client_type = "anthropic" THEN same
                 \* 39-44: OpenAIAdapter(...) is not inside a try, so what it raises
                 \* leaves get_adapter; 54-67: GoogleAdapter(...) is, and None is returned
                 ELSE IF fail THEN [same EXCEPT !.raised = (cfg.client_type = "openai_compatible")]
                 \* 75-79
                 ELSE [ret |-> id, raised |-> FALSE,
                       adapters |-> CachePut(cache, key, id),
                       clients |-> Append(insts, NewClient(cfg))]

\* Whether get_adapter(mid) gets as far as calling a constructor.
Constructs(reg, cache, mid) ==
    /\ mid \in DOMAIN reg
    /\ reg[mid].enabled
    /\ ~InCache(cache, AdapterKey(reg[mid]))
    /\ reg[mid].client_type # "anthropic"

\* The model stops constructing at MaxAdapters instances; a constructor can
\* only raise where one is called.
WithinBound(mid, fail) ==
    /\ (Constructs(models, adapters, mid) /\ ~fail) => Len(clients) < MaxAdapters
    /\ fail => Constructs(models, adapters, mid)

NoteIssued(mid, r) ==
    IF r.ret = NoAdapter THEN issued
    ELSE issued \cup {<<AdapterKey(models[mid]), mid, r.ret>>}

\* What the last operation was and what it gave: the adapter returned (ret),
\* whether a constructor was called and raised (cfail), whether an exception
\* left get_adapter (raised), the HTTP status and detail of a chat request and
\* the adapter it was run on (used).
NoOp == [op |-> "none", model |-> Null, ret |-> NoAdapter, cfail |-> FALSE,
         raised |-> FALSE, status |-> 0, detail |-> Null, used |-> NoAdapter,
         listed |-> {}]

FactoryInit ==
    /\ models = ("m1" :> CHOOSE c \in Catalogue :
                    c.provider = ProviderP /\ c.api_key_env = "OPENAI_API_KEY")
    /\ adapters = <<>>
    /\ clients = <<>>
    /\ closing = [active |-> FALSE, todo |-> <<>>, size |-> 0]
    /\ issued = {}
    /\ last = NoOp

\* models.py 116-118
Register(mid, cfg) ==
    /\ models' = register_model(models, mid, cfg)
    /\ last' = [NoOp EXCEPT !.op = "register", !.model = mid]
    /\ UNCHANGED <<adapters, clients, closing, issued>>

\* models.py 145-150
Disable(mid) ==
    /\ models' = disable_model(models, mid)
    /\ last' = [NoOp EXCEPT !.op = "disable", !.model = mid]
    /\ UNCHANGED <<adapters, clients, closing, issued>>

\* models.py 152-157
Enable(mid) ==
    /\ models' = enable_model(models, mid)
    /\ last' = [NoOp EXCEPT !.op = "enable", !.model = mid]
    /\ UNCHANGED <<adapters, clients, closing, issued>>

\* models.py 124-129: list_models(enabled_only=True), the ids of its result.
list_models(reg) == {mid \in DOMAIN reg : reg[mid].enabled}

\* adapter_factory.py 98-115: list_available_models, the ids of its "data".
list_available_models(reg) == list_models(reg)

\* GET /models: adapter_factory.py 98-115.
ListModels ==
    /\ last' = [NoOp EXCEPT !.op = "list", !.listed = list_available_models(models)]
    /\ UNCHANGED <<models, adapters, clients, closing, issued>>

\* adapter_factory.py 20-79: a call of get_adapter (health_check_all 136, or
\* any other caller of the factory).
Resolve(mid, fail) ==
    /\ WithinBound(mid, fail)
    /\ LET r == get_adapter(models, adapters, clients, mid, fail)
       IN  /\ adapters' = r.adapters
           /\ clients' = r.clients
           /\ issued' = NoteIssued(mid, r)
           /\ last' = [NoOp EXCEPT !.op = "resolve", !.model = mid, !.ret = r.ret,
                                   !.cfail = fail, !.raised = r.raised]
    /\ UNCHANGED <<models, closing>>

NotFoundDetail == "Model not found or not available"
InternalErrorDetail == "Internal server error during chat completion"

\* chat.py 25-130: create_chat_completion.  `fail`: the adapter's constructor
\* raises; `callRaises`: adapter.chat_completion raises (it does on a closed
\* HTTP client).  A stream=true request returns the StreamingResponse over
\* _stream_chat_completion(adapter, ...).
ChatCompletion(mid, stream, fail, callRaises) ==
    /\ WithinBound(mid, fail)
    /\ callRaises => ~stream
    /\ LET r == get_adapter(models, adapters, clients, mid, fail)
           raises == callRaises \/ (r.ret # NoAdapter /\ r.clients[r.ret].closed)
           resp == IF r.raised THEN [status |-> 500, detail |-> InternalErrorDetail, used |-> NoAdapter]
                   ELSE IF r.ret = NoAdapter
                        THEN [status |-> 404, detail |-> NotFoundDetail, used |-> NoAdapter]
                   ELSE IF stream THEN [status |-> 200, detail |-> "stream", used |-> r.ret]
                   ELSE IF raises
                        THEN [status |-> 500, detail |-> InternalErrorDetail, used |-> r.ret]
                   ELSE [status |-> 200, detail |-> "completion", used |-> r.ret]
       IN  /\ adapters' = r.adapters
           /\ clients' = r.clients
           /\ issued' = NoteIssued(mid, r)
           /\ last' = [op |-> IF stream THEN "chat_stream" ELSE "chat", model |-> mid,
                       ret |-> r.ret, cfail |-> fail, raised |-> r.raised,
                       status |-> resp.status, detail |-> resp.detail, used |-> resp.used,
                       listed |-> {}]
    /\ UNCHANGED <<models, closing>>

\* close_all is a coroutine: other calls run only while it waits in
\* `await adapter.__aexit__(...)`; everything between two waits is one step.
\* closing.todo holds the adapters not yet done, the first being waited for.

\* adapter_factory.py 162-166 (and 187-191): close_all starts its loop over
\* self._adapters.values().  With an empty cache the loop has no round and
\* 171-172 follow at once; otherwise it waits for the first adapter's __aexit__.
CloseAllBegin ==
    /\ ~closing.active
    /\ IF adapters = <<>>
       THEN /\ issued' = {}
            /\ last' = [NoOp EXCEPT !.op = "close_all_end"]
            /\ UNCHANGED <<adapters, closing>>
       ELSE /\ closing' = [active |-> TRUE,
                           todo |-> [i \in 1..Len(adapters) |-> adapters[i].id],
                           size |-> Len(adapters)]
            /\ last' = [NoOp EXCEPT !.op = "close_all_begin"]
            /\ UNCHANGED <<adapters, issued>>
    /\ UNCHANGED <<models, clients>>

\* adapter_factory.py 164-172: the __aexit__ waited for is over: it has closed
\* the adapter's HTTP client (openai_adapter.py 96-97), or raised, which is
\* logged.  Then the loop asks for the next adapter: a dict that grew since the
\* loop began makes the iterator raise RuntimeError, which leaves close_all
\* before line 171; after the last adapter the cache is cleared (171-172).
CloseOne(acloseRaises) ==
    /\ closing.active
    /\ clients' = [clients EXCEPT ![Head(closing.todo)].closed =
                       IF acloseRaises THEN @ ELSE TRUE]
    /\ IF Len(adapters) # closing.size
       THEN /\ closing' = [active |-> FALSE, todo |-> <<>>, size |-> 0]
            /\ last' = [NoOp EXCEPT !.op = "close_all_error", !.raised = TRUE]
            /\ UNCHANGED <<adapters, issued>>
       ELSE IF Tail(closing.todo) = <<>>
       THEN /\ closing' = [active |-> FALSE, todo |-> <<>>, size |-> 0]
            /\ adapters' = <<>>
            /\ issued' = {}
            /\ last' = [NoOp EXCEPT !.op = "close_all_end"]
       ELSE /\ closing' = [closing EXCEPT !.todo = Tail(@)]
            /\ last' = [NoOp EXCEPT !.op = "close_one", !.ret = Head(closing.todo)]
            /\ UNCHANGED <<adapters, issued>>
    /\ UNCHANGED models

(***************************************************************************)
(* Authentication middleware, permission matrix, blacklist, logout         *)
(***************************************************************************)
\* Paths and path patterns are sequences of characters: the code matches them
\* by prefix.
PathChat ==
    <<"/", "v", "1", "/", "c", "h", "a", "t", "/", "c", "o", "m", "p", "l", "e", "t",
      "i", "o", "n", "s">>
PathModels ==
    <<"/", "v", "1", "/", "m", "o", "d", "e", "l", "s">>
PathHealth ==
    <<"/", "h", "e", "a", "l", "t", "h">>
PathStatus ==
    <<"/", "s", "t", "a", "t", "u", "s">>
PathLogout ==
    <<"/", "a", "u", "t", "h", "/", "l", "o", "g", "o", "u", "t">>
PathLogin ==
    <<"/", "a", "u", "t", "h", "/", "l", "o", "g", "i", "n">>
PathCallback ==
    <<"/", "a", "u", "t", "h", "/", "c", "a", "l", "l", "b", "a", "c", "k">>
PathDocs ==
    <<"/", "d", "o", "c", "s">>
PathRedoc ==
    <<"/", "r", "e", "d", "o", "c">>
PathOpenapi ==
    <<"/", "o", "p", "e", "n", "a", "p", "i", ".", "j", "s", "o", "n">>
PathRoot == <<"/">>
PatternAuth == <<"/", "a", "u", "t", "h", "/", "*">>
PatternAll == <<"*">>

\* str.startswith and str.endswith
StartsWith(s, prefix) ==
    Len(prefix) <= Len(s) /\ SubSeq(s, 1, Len(prefix)) = prefix

EndsWith(s, suffix) ==
    Len(suffix) <= Len(s) /\ SubSeq(s, Len(s) - Len(suffix) + 1, Len(s)) = suffix

\* middleware.py 45-48: the excluded_paths a middleware built without the
\* argument gets.
DefaultExcludedPaths ==
    <<PathDocs, PathRedoc, PathOpenapi, PathHealth, PathStatus,
      PathLogin, PathCallback, PathLogout, PathRoot>>

\* An excluded_paths argument (middleware.py 43).
CustomExcludedPaths == <<PathHealth, PathLogin, PathCallback>>

\* settings.py 47: the default of auth_required_endpoints, and a value set
\* through AUTH_REQUIRED_ENDPOINTS.
DefaultRequiredEndpoints == {PathChat}
ExtendedRequiredEndpoints == {PathChat, PathLogout}

\* main.py 62-69 adds no AuthenticationMiddleware ("absent"); auth/__init__.py
\* exports it for an application that adds it, without ("default") or with
\* ("custom") the excluded_paths argument.
AuthConfigs ==
    [middleware : {"absent", "default", "custom"},
     enable_auth : BOOLEAN,
     auth_required_endpoints : {DefaultRequiredEndpoints, ExtendedRequiredEndpoints}]

ExcludedPaths(cfg) ==
    IF cfg.middleware = "custom" THEN CustomExcludedPaths ELSE DefaultExcludedPaths

\* auth/models.py 16-21
UserRoles == {"student", "educator", "admin", "guest"}

\* A bearer token: the role claim it carries and what, if anything, makes
\* jwt.decode refuse it.
Defects == {"none", "expired", "bad_signature", "malformed", "wrong_issuer", "wrong_audience"}
Tokens ==
    { [id |-> "t_student", role |-> "student", defect |-> "none"],
      [id |-> "t_guest", role |-> "guest", defect |-> "none"],
      [id |-> "t_expired", role |-> "student", defect |-> "expired"],
      [id |-> "t_badsig", role |-> "admin", defect |-> "bad_signature"],
      [id |-> "t_malformed", role |-> "guest", defect |-> "malformed"],
      [id |-> "t_iss", role |-> "student", defect |-> "wrong_issuer"],
      [id |-> "t_aud", role |-> "student", defect |-> "wrong_audience"] }
NoToken == [id |-> "none", role |-> Null, defect |-> "malformed"]

\* The Authorization header: absent, "Bearer <token>", or another scheme.
Headers ==
    {[scheme |-> "none", token |-> NoToken], [scheme |-> "Basic", token |-> NoToken]}
        \cup {[scheme |-> "Bearer", token |-> t] : t \in Tokens}

RequestPaths == {PathChat, PathModels, PathHealth}

\* cognito_client.py 279-280: str(e) of the JWTError that jwt.decode raises.
JoseMessage(defect) ==
    CASE defect = "expired" -> "Signature has expired."
      [] defect = "bad_signature" -> "Signature verification failed."
      [] defect = "malformed" -> "Not enough segments"
      [] defect = "wrong_issuer" -> "Invalid issuer"
      [] defect = "wrong_audience" -> "Invalid audience"
      [] OTHER -> ""

\* cognito_client.py 268-280 (auth0_client.py 247-259): verify_internal_jwt.
\* Signature, expiry, audience and issuer are checked; the blacklist is not.
verify_internal_jwt(token) ==
    IF token.defect = "none"
    THEN [ok |-> TRUE, role |-> token.role, error |-> <<>>]
    ELSE [ok |-> FALSE, role |-> Null,
          error |-> <<"Invalid JWT token: ", JoseMessage(token.defect)>>]

\* middleware.py 76-108: _authenticate_request.  The text of the exception is
\* put into the detail of the AuthenticationError (108).
AuthenticateRequest(hdr) ==
    IF hdr.scheme # "Bearer"
    THEN [ok |-> FALSE, role |-> Null, detail |-> <<"Missing or invalid authorization header">>]
    ELSE LET v == verify_internal_jwt(hdr.token)
         IN  IF v.ok
             THEN [ok |-> TRUE, role |-> v.role, detail |-> <<>>]
             ELSE [ok |-> FALSE, role |-> Null,
                   detail |-> <<"Token validation failed: ">> \o v.error]

\* middleware.py 50-74: dispatch.  passed: call_next(request) was called;
\* user: request.state.user (the role, Null when not set); authRan:
\* _authenticate_request was called.
Dispatch(cfg, path, hdr) ==
    LET through == [passed |-> TRUE, user |-> Null, authRan |-> FALSE,
                    status |-> 200, detail |-> <<>>]
        excluded == ExcludedPaths(cfg)
    IN  IF cfg.middleware = "absent" THEN through
        \* 54-55
        ELSE IF \E i \in 1..Len(excluded) : StartsWith(path, excluded[i]) THEN through
        \* 58-59
        ELSE IF ~cfg.enable_auth THEN through
        \* 62-63
        ELSE IF path \notin cfg.auth_required_endpoints THEN through
        \* 66-74
        ELSE LET a == AuthenticateRequest(hdr)
             IN  IF a.ok
                 THEN [through EXCEPT !.user = a.role, !.authRan = TRUE]
                 ELSE [passed |-> FALSE, user |-> Null, authRan |-> TRUE,
                       status |-> 401, detail |-> a.detail]

\* middleware.py 163-209: the permission matrix.
Permissions(role) ==
    CASE role = "admin" -> <<PatternAll>>
      [] role = "educator" -> <<PathChat, PathModels, PathHealth, PathStatus, PatternAuth>>
      [] role = "student" -> <<PathChat, PathModels, PathHealth, PatternAuth>>
      [] role = "guest" -> <<PathHealth, PatternAuth>>
      [] OTHER -> <<>>

\* middleware.py 163-209: check_endpoint_permission.
check_endpoint_permission(endpoint, method, user_role) ==
    LET user_permissions == Permissions(user_role)
    IN  \/ \E i \in 1..Len(user_permissions) : user_permissions[i] = PatternAll
        \/ \E i \in 1..Len(user_permissions) :
              LET permission == user_permissions[i]
              IN  IF EndsWith(permission, <<"/", "*">>)
                  THEN StartsWith(endpoint, SubSeq(permission, 1, Len(permission) - 2))
                  ELSE permission = endpoint

NoRequest ==
    [path |-> <<>>, hdr |-> [scheme |-> "none", token |-> NoToken], passed |-> FALSE,
     user |-> Null, authRan |-> FALSE, wasRevoked |-> FALSE, status |-> 0, detail |-> <<>>]

AuthInit ==
    /\ aCfg \in AuthConfigs
    /\ blacklist = {}
    /\ aLast = NoRequest
    /\ aFailures = {}

\* What a rejection of a presented bearer token adds to the record of them.
NoteFailure(hdr, d) ==
    IF d.authRan /\ ~d.passed /\ hdr.scheme = "Bearer"
    THEN aFailures \cup {<<d.status, d.detail>>}
    ELSE aFailures

\* A request to a path other than the logout route: the middleware, then the
\* route's handler.
Request(path, hdr) ==
    /\ LET d == Dispatch(aCfg, path, hdr)
       IN  /\ aLast' = [path |-> path, hdr |-> hdr, passed |-> d.passed, user |-> d.user,
                        authRan |-> d.authRan, wasRevoked |-> hdr.token.id \in blacklist,
                        status |-> d.status, detail |-> d.detail]
           /\ aFailures' = NoteFailure(hdr, d)
    /\ UNCHANGED <<aCfg, blacklist>>

\* POST /auth/logout: the middleware, then auth.py 254-291 with its
\* Depends(require_auth) (middleware.py 111-121).
Logout(hdr) ==
    /\ LET d == Dispatch(aCfg, PathLogout, hdr)
           \* middleware.py 116-121: require_auth
           authed == d.passed /\ d.user # Null
           \* auth.py 270-274
           revoke == authed /\ hdr.scheme = "Bearer"
           out == IF ~d.passed THEN d
                  ELSE IF ~authed
                       THEN [d EXCEPT !.status = 401, !.detail = <<"Authentication required">>]
                  ELSE [d EXCEPT !.status = 200, !.detail = <<"Logout successful">>]
       IN  /\ blacklist' = IF revoke THEN blacklist \cup {hdr.token.id} ELSE blacklist
           /\ aLast' = [path |-> PathLogout, hdr |-> hdr, passed |-> d.passed, user |-> d.user,
                        authRan |-> d.authRan, wasRevoked |-> hdr.token.id \in blacklist,
                        status |-> out.status, detail |-> out.detail]
           /\ aFailures' = NoteFailure(hdr, d)
    /\ UNCHANGED aCfg

(***************************************************************************)
(* VerifyAuthChallenge                                                     *)
(***************************************************************************)
\* Codes are sequences of characters: a digit, a letter in both cases, a blank.
CodeChars == {"1", "a", "A", " "}
Codes == SeqsUpTo(CodeChars, MaxCode)

\* A string-valued key of the event: not present, JSON null, or a string.
AbsentValue == [kind |-> Absent, s |-> <<>>]
NullValue == [kind |-> Null, s |-> <<>>]
Str(c) == [kind |-> "str", s |-> c]
CodeValues == {AbsentValue, NullValue} \cup {Str(c) : c \in Codes}

\* dict.get(key, ''): the default replaces a key that is not present.
GetOrEmpty(v) == IF v.kind = Absent THEN Str(<<>>) ELSE v

\* Python's "not x" for None and for a string.
Not(v) == v.kind = Null \/ v.s = <<>>

EmptyVerifyResponse == [answerCorrect |-> Null]

VerifyHandlerAcceptAll(expected, provided, response) ==
    [response EXCEPT !.answerCorrect = JTrue]

VerifyHandlerNoGuards(expected, provided, response) ==
    [response EXCEPT !.answerCorrect =
        IF GetOrEmpty(expected) = GetOrEmpty(provided) THEN JTrue ELSE JFalse]

\* verify_auth.py 7-33: handler, as a function of the expected code, the
\* answer and the response.
VerifyHandler(expected, provided, response) ==
    LET expected_code == GetOrEmpty(expected)
        provided_code == GetOrEmpty(provided)
    IN  IF Not(expected_code) THEN [response EXCEPT !.answerCorrect = JFalse]
        ELSE IF Not(provided_code) THEN [response EXCEPT !.answerCorrect = JFalse]
        ELSE [response EXCEPT !.answerCorrect =
                 IF expected_code = provided_code THEN JTrue ELSE JFalse]

VerifyInit ==
    /\ vPc = "idle"
    /\ vExpected = AbsentValue
    /\ vProvided = AbsentValue
    /\ vResponse = EmptyVerifyResponse

\* Cognito invokes the trigger with the stored code and the client's answer.
VerifyInvoke(expected, provided) ==
    /\ vPc \in {"idle", "returned"}
    /\ vPc' = "call"
    /\ vExpected' = expected
    /\ vProvided' = provided
    /\ vResponse' = EmptyVerifyResponse

\* verify_auth.py 7-33.
VerifyReturn ==
    /\ vPc = "call"
    /\ vResponse' = VerifyHandler(vExpected, vProvided, vResponse)
    /\ vPc' = "returned"
    /\ UNCHANGED <<vExpected, vProvided>>

(***************************************************************************)
(* The chat route: request validation, provider call, response, logging    *)
(***************************************************************************)
\* api/models.py 19-30: the limits of max_tokens and of temperature (in tenths).
MaxTokensLimit == 8192
TemperatureLimit == 20

\* "m1" and "m2" are registered, "m3" is not.
ChatModelIds == {"m1", "m2", "m3"}

\* The request bodies: the number of messages, max_tokens, the temperature in
\* tenths, stream.
ChatRequests ==
    [model_id : ChatModelIds, nmsgs : {0, 1},
     max_tokens : {0, 1, MaxTokensLimit + 1},
     temperature : {-1, TemperatureLimit, TemperatureLimit + 1},
     stream : BOOLEAN]

\* api/models.py 9-34: what pydantic checks of a ChatCompletionRequest before
\* the route is entered.  messages is a List[ChatMessage] of any length.
ValidRequest(req) ==
    /\ req.nmsgs >= 0
    /\ req.max_tokens >= 1 /\ req.max_tokens <= MaxTokensLimit
    /\ req.temperature >= 0 /\ req.temperature <= TemperatureLimit

\* settings.py 24-26: the API keys of the deployment.
OpenAIKey == "sk-OPENAI-KEY"
GoogleKey == "AIza-GOOGLE-KEY"
ApiKeys == {OpenAIKey, GoogleKey}

\* The usage block of a provider's answer: not there, or the counts it holds
\* (any of prompt, completion, total), with either provider's key names.
UsageFields == {"prompt", "completion", "total"}
NoUsage == [present |-> FALSE, fields |-> <<>>]
UsageBlocks ==
    {NoUsage} \cup
    {[present |-> TRUE, fields |-> f] :
        f \in UNION {[K -> 0..MaxUsage] : K \in SUBSET UsageFields}}

\* What the provider does with a call: a 200 answer with a usage block, a
\* non-2xx answer, no answer in time, or a 200 answer without choices/candidates.
ProviderAnswers ==
    {[kind |-> "ok", status |-> "200", usage |-> u] : u \in UsageBlocks}
        \cup {[kind |-> "status", status |-> s, usage |-> NoUsage] : s \in {"401", "500"}}
        \cup {[kind |-> "timeout", status |-> "0", usage |-> NoUsage],
              [kind |-> "bad_body", status |-> "200", usage |-> NoUsage]}
NoAnswer == [kind |-> "none", status |-> "0", usage |-> NoUsage]

\* The answers to choose from for a request: none where validation stops it,
\* and a usage block only where a ChatResponse is built from the answer.
AnswersFor(req) ==
    {NoAnswer} \cup {a \in ProviderAnswers :
                        /\ req.max_tokens \in 1..MaxTokensLimit
                        /\ req.temperature \in 0..TemperatureLimit
                        /\ req.stream => a.usage = NoUsage}

\* dict.get(key, 0)
GetOrZero(f, k) == IF k \in DOMAIN f THEN f[k] ELSE 0

ZeroUsage == [prompt_tokens |-> 0, completion_tokens |-> 0, total_tokens |-> 0]

\* The URL of the call, in pieces.  google_adapter.py 86-88 and 157-159 put the
\* key into the query; openai_adapter.py 20-25 puts it into a header.
CallUrl(client, req) ==
    IF client.variant = "google"
    THEN <<"https://generativelanguage.googleapis.com/v1beta", "/models/", req.model_id,
           IF req.stream THEN ":streamGenerateContent" ELSE ":generateContent">>
         \o (IF client.api_key_env = "GOOGLE_API_KEY" THEN <<"?key=", GoogleKey>> ELSE <<>>)
    ELSE client.api_base \o <<"/chat/completions">>

CallHeaders(client) ==
    IF client.variant = "openai_compatible" /\ client.api_key_env = "OPENAI_API_KEY"
    THEN <<"Authorization: Bearer ", OpenAIKey>>
    ELSE <<>>

\* str(e) of what response.raise_for_status() raises (openai_adapter.py 45 and
\* 68, google_adapter.py 91 and 162): httpx names the status and the URL of
\* the request.
StatusErrorText(status, url) ==
    <<"Error '", status, "' for url '">> \o url \o <<"'">>

NotCalled ==
    [called |-> "none", url |-> <<>>, headers |-> <<>>, nmsgs |-> 0,
     raised |-> FALSE, exc |-> <<>>]

\* openai_adapter.py 47-55 and google_adapter.py 130-145: the usage dict of the
\* ChatResponse.  The OpenAI adapter hands on the provider's block; the Google
\* adapter fills the three keys, with 0 for a count that is not there.
AdapterUsage(client, u) ==
    IF ~u.present THEN <<>>
    ELSE IF client.variant = "google"
         THEN [k \in {"prompt_tokens", "completion_tokens", "total_tokens"} |->
                  CASE k = "prompt_tokens" -> GetOrZero(u.fields, "prompt")
                    [] k = "completion_tokens" -> GetOrZero(u.fields, "completion")
                    [] OTHER -> GetOrZero(u.fields, "total")]
         ELSE [k \in {IF f = "prompt" THEN "prompt_tokens"
                      ELSE IF f = "completion" THEN "completion_tokens"
                      ELSE "total_tokens" : f \in DOMAIN u.fields} |->
                  CASE k = "prompt_tokens" -> u.fields["prompt"]
                    [] k = "completion_tokens" -> u.fields["completion"]
                    [] OTHER -> u.fields["total"]]

\* openai_adapter.py 34-83 and google_adapter.py 76-177: chat_completion and
\* chat_completion_stream of the adapter `client` on `req`, the provider
\* answering `answer`: what was sent, whether an exception left the adapter
\* and its str(e), the usage of the ChatResponse, and what the adapter logged.
AdapterCall(client, req, answer) ==
    LET url == CallUrl(client, req)
        sent == [called |-> IF req.stream THEN "chat_completion_stream" ELSE "chat_completion",
                 url |-> url, headers |-> CallHeaders(client), nmsgs |-> req.nmsgs,
                 raised |-> FALSE, exc |-> <<>>]
        raise(text) == [sent |-> [sent EXCEPT !.raised = TRUE, !.exc = text],
                        usage |-> <<>>, log |-> {}]
    IN  CASE answer.kind = "status" -> raise(StatusErrorText(answer.status, url))
          [] answer.kind = "timeout" -> raise(<<"ReadTimeout">>)
          [] answer.kind = "bad_body" /\ ~req.stream ->
                IF client.variant = "google"
                THEN [sent |-> [sent EXCEPT !.raised = TRUE,
                                            !.exc = <<"No response candidates from Gemini API">>],
                      usage |-> <<>>,
                      log |-> {<<"No candidates in response: ", "{}">>}]
                ELSE raise(<<"'choices'">>)
          [] OTHER ->
                [sent |-> sent,
                 usage |-> AdapterUsage(client, answer.usage),
                 log |-> IF client.variant = "google" /\ ~req.stream
                         THEN {<<"Gemini API response: ", "{...}">>} ELSE {}]

ValidationErrorDetail == "validation error"

ErrorResponseLeak(exc) ==
    [status |-> 500, detail |-> exc, usage |-> ZeroUsage]

\* chat.py 127-130
ErrorResponse(exc) ==
    [status |-> 500, detail |-> <<InternalErrorDetail>>, usage |-> ZeroUsage]

\* chat.py 96-100: the Usage of the response.
ResponseUsage(usage) ==
    [prompt_tokens |-> GetOrZero(usage, "prompt_tokens"),
     completion_tokens |-> GetOrZero(usage, "completion_tokens"),
     total_tokens |-> GetOrZero(usage, "total_tokens")]

\* chat.py 54-62, 120-126 and 190-197: the log records of the route.
RequestLog(req) == <<"Chat completion request", req.model_id>>
FailedLog(req, exc) ==
    <<IF req.stream THEN "Streaming chat completion failed" ELSE "Chat completion failed",
      req.model_id, "error=">> \o exc

\* api/models.py 9-34 and chat.py 25-210: the whole of a POST /chat/completions.
CreateChatCompletion(reg, cache, insts, req, fail, answer) ==
    LET none == [resp |-> [status |-> 422, detail |-> <<ValidationErrorDetail>>, usage |-> ZeroUsage],
                 sent |-> NotCalled, log |-> {}, adapters |-> cache, clients |-> insts]
    IN  IF ~ValidRequest(req) THEN none
        ELSE LET r == get_adapter(reg, cache, insts, req.model_id, fail)
                 after == [none EXCEPT !.adapters = r.adapters, !.clients = r.clients]
             IN  \* 119-130: what get_adapter raises
                 IF r.raised
                 THEN [after EXCEPT !.resp = ErrorResponse(<<"TypeError">>),
                                    !.log = {FailedLog([req EXCEPT !.stream = FALSE], <<"TypeError">>)}]
                 \* 38-42
                 ELSE IF r.ret = NoAdapter
                 THEN [after EXCEPT !.resp = [status |-> 404, detail |-> <<NotFoundDetail>>,
                                              usage |-> ZeroUsage]]
                 ELSE LET a == AdapterCall(r.clients[r.ret], req, answer)
                          log == {RequestLog(req)} \cup a.log
                                  \cup (IF a.sent.raised THEN {FailedLog(req, a.sent.exc)} ELSE {})
                      IN  [after EXCEPT
                             !.sent = a.sent,
                             !.log = log,
                             !.resp =
                                \* 65-69 and 133-210
                                IF req.stream
                                THEN [status |-> 200,
                                      detail |-> IF a.sent.raised
                                                 THEN <<"Stream interrupted due to error">>
                                                 ELSE <<"stream">>,
                                      usage |-> ZeroUsage]
                                \* 117-130
                                ELSE IF a.sent.raised THEN ErrorResponse(a.sent.exc)
                                \* 73-115
                                ELSE [status |-> 200, detail |-> <<"completion">>,
                                      usage |-> ResponseUsage(a.usage)]]

ChatInit ==
    /\ cReq = [model_id |-> "m3", nmsgs |-> 0, max_tokens |-> 0, temperature |-> 0,
               stream |-> FALSE]
    /\ cAnswer = NoAnswer
    /\ cSent = NotCalled
    /\ cResp = [status |-> 0, detail |-> <<>>, usage |-> ZeroUsage]
    /\ cLog = {}

\* models.py 43-114: the registry with an OpenAI-compatible and a Google model.
ChatFactoryInit ==
    /\ models = register_model(
                    "m1" :> (CHOOSE c \in Catalogue : c.client_type = "openai_compatible"),
                    "m2", CHOOSE g \in Catalogue : g.client_type = "google")
    /\ adapters = <<>>
    /\ clients = <<>>
    /\ closing = [active |-> FALSE, todo |-> <<>>, size |-> 0]
    /\ issued = {}
    /\ last = NoOp

\* A POST /chat/completions and everything done for it.  There is a provider's
\* answer exactly where a call is made.
ChatPost(req, fail, answer) ==
    /\ ~closing.active
    /\ WithinBound(req.model_id, fail)
    /\ fail => ValidRequest(req)
    /\ LET c == CreateChatCompletion(models, adapters, clients, req, fail, answer)
       IN  /\ (answer = NoAnswer) <=> (c.sent.called = "none")
           /\ cReq' = req
           /\ cAnswer' = answer
           /\ cSent' = c.sent
           /\ cResp' = c.resp
           /\ cLog' = c.log
           /\ adapters' = c.adapters
           /\ clients' = c.clients
    /\ UNCHANGED <<models, closing, issued, last>>

(***************************************************************************)
(* The run of the service and its shutdown                                 *)
(***************************************************************************)
ServiceInit ==
    /\ svcPhase = "serving"
    /\ svcCloseCalls = 0

\* A health check that makes the factory resolve an adapter while uvicorn
\* serves (adapter_factory.py 136).
Serve(mid, fail) ==
    /\ svcPhase = "serving"
    /\ Resolve(mid, fail)
    /\ UNCHANGED serviceVars

\* A chat request while uvicorn serves.
ServeChat(mid, stream, fail, callRaises) ==
    /\ svcPhase = "serving"
    /\ ChatCompletion(mid, stream, fail, callRaises)
    /\ UNCHANGED serviceVars

\* run_server.py 49-55: uvicorn.run returns after its own graceful shutdown,
\* which runs the lifespan's shutdown part (main.py 47-49: a log line); the
\* script ends.
UvicornReturns ==
    /\ svcPhase = "serving"
    /\ svcPhase' = "exited"
    /\ UNCHANGED <<svcCloseCalls, factoryVars>>

\* run_server.py 57-62: uvicorn.run raises KeyboardInterrupt or another
\* exception; the except branch is entered.
UvicornRaises ==
    /\ svcPhase = "serving"
    /\ svcPhase' = "interrupted"
    /\ UNCHANGED <<svcCloseCalls, factoryVars>>

\* run_server.py 35-39 and adapter_factory.py 187-192: shutdown_handler calls
\* close_adapter_factory, which calls close_all.
ShutdownBegin ==
    /\ svcPhase = "interrupted"
    /\ CloseAllBegin
    /\ svcPhase' = IF adapters = <<>> THEN "exited" ELSE "closing"
    /\ svcCloseCalls' = svcCloseCalls + 1

\* adapter_factory.py 164-172, in the event loop of asyncio.run, where nothing
\* else runs; run_server.py 39 after the last round.
ShutdownCloseOne(acloseRaises) ==
    /\ svcPhase = "closing"
    /\ CloseOne(acloseRaises)
    /\ svcPhase' = IF closing'.active THEN "closing" ELSE "exited"
    /\ UNCHANGED svcCloseCalls

(***************************************************************************)
(* Calls of check_endpoint_permission                                      *)
(***************************************************************************)
PathAuth == <<"/", "a", "u", "t", "h">>
PathAuthz == <<"/", "a", "u", "t", "h", "z">>
PathAuthSlash == <<"/", "a", "u", "t", "h", "/">>
PathAdminUsers == <<"/", "a", "d", "m", "i", "n", "/", "u", "s", "e", "r", "s">>
PathHealthLive == <<"/", "h", "e", "a", "l", "t", "h", "/", "l", "i", "v", "e">>
PathV1 == <<"/", "v", "1">>

\* The endpoints and methods check_endpoint_permission is called with.
Endpoints ==
    {PathChat, PathModels, PathHealth, PathStatus, PathLogout, PathLogin, PathDocs,
     PathRoot, PathAuth, PathAuthz, PathAuthSlash, PathAdminUsers, PathHealthLive, PathV1}
Methods == {"GET", "POST"}

PermInit ==
    /\ pEndpoint = <<>>
    /\ pMethod = "GET"
    /\ pRole = Null
    /\ pResult = FALSE

\* middleware.py 163-209: a call of check_endpoint_permission.
CheckPermission(endpoint, method, user_role) ==
    /\ pEndpoint' = endpoint
    /\ pMethod' = method
    /\ pRole' = user_role
    /\ pResult' = check_endpoint_permission(endpoint, method, user_role)

(***************************************************************************)
(* A login session: DefineAuthChallenge, CreateAuthChallenge,              *)
(* VerifyAuthChallenge in the order in which Cognito invokes them          *)
(***************************************************************************)
\* create_auth.py 26: the codes random.choices can give (two stand for all).
GeneratedCodes == {<<"1", "1">>, <<"1", "2">>}

\* What the client sends as challengeAnswer.
Answers ==
    {AbsentValue, NullValue, Str(<<>>), Str(<<"1">>)} \cup {Str(c) : c \in GeneratedCodes}

\* create_auth.py 11-55: handler.  For CUSTOM_CHALLENGE it raises without an
\* email attribute and otherwise stores the code it generated; a failure to
\* send the mail is logged.  For another challenge name it stores nothing.
CreateHandler(challengeName, hasEmail, code) ==
    IF challengeName = "CUSTOM_CHALLENGE"
    THEN IF ~hasEmail THEN [raised |-> TRUE, code |-> AbsentValue]
         ELSE [raised |-> FALSE, code |-> Str(code)]
    ELSE [raised |-> FALSE, code |-> AbsentValue]

LoginInit ==
    /\ lPc = "define"
    /\ lSession = <<>>
    /\ lCode = AbsentValue
    /\ lRounds = <<>>

\* define_auth.py 7-29 on the session so far.
LoginDefine ==
    /\ lPc = "define"
    /\ LET r == DefineHandler([isNull |-> FALSE, list |-> lSession], EmptyResponse)
       IN  lPc' = IF r.issueTokens = JTrue THEN "tokens_issued"
                  ELSE IF r.failAuthentication = JTrue THEN "failed"
                  ELSE IF Len(lSession) >= MaxRounds THEN "abandoned"
                  ELSE "create"
    /\ UNCHANGED <<lSession, lCode, lRounds>>

\* create_auth.py 11-55 for the challenge DefineAuthChallenge asked for.
LoginCreate(hasEmail, code) ==
    /\ lPc = "create"
    /\ LET r == CreateHandler("CUSTOM_CHALLENGE", hasEmail, code)
       IN  /\ lPc' = IF r.raised THEN "error" ELSE "verify"
           /\ lCode' = r.code
    /\ UNCHANGED <<lSession, lRounds>>

\* verify_auth.py 7-33 on the round's code and the client's answer; Cognito
\* appends the result to the session.
LoginVerify(answer) ==
    /\ lPc = "verify"
    /\ LET r == VerifyHandler(lCode, answer, EmptyVerifyResponse)
       IN  lSession' = Append(lSession, [challengeName |-> "CUSTOM_CHALLENGE",
                                         challengeResult |-> r.answerCorrect])
    /\ lRounds' = Append(lRounds, [code |-> lCode, answer |-> answer])
    /\ lCode' = AbsentValue
    /\ lPc' = "define"

(***************************************************************************)
(* Requests in flight.  Every route is a coroutine of one event loop       *)
(* (chat.py 25, 213; health.py 18, 57) and get_adapter is a plain function *)
(* without a suspension point (adapter_factory.py 20-79), so a handler     *)
(* runs from its entry to `await adapter.chat_completion` (chat.py 73)     *)
(* without another handler running in between.  A handler is suspended     *)
(* only while it awaits the provider's answer.                             *)
(***************************************************************************)
MaxInFlight == 2
Flights == 1..MaxInFlight

IdleFlight == [pc |-> "idle", model |-> "m1", adapter |-> NoAdapter, enabled |-> FALSE, fail |-> FALSE]

\* Two models of one provider at one api_base, as gpt-3.5-turbo and gpt-4o of
\* the default registry (config/models.py 67-89): one cache key.
SharedKeyConfig == CHOOSE cfg \in Catalogue : cfg.client_type = "openai_compatible"

FlightInit == flight = [r \in Flights |-> IdleFlight]

FlightFactoryInit ==
    /\ models = [mid \in ModelIds |-> SharedKeyConfig]
    /\ adapters = <<>>
    /\ clients = <<>>
    /\ closing = [active |-> FALSE, todo |-> <<>>, size |-> 0]
    /\ issued = {}
    /\ last = NoOp

\* chat.py 25-35: the request is accepted and logged; nothing is resolved yet
FlightArrive(r, mid) ==
    /\ flight[r].pc = "idle"
    /\ flight' = [flight EXCEPT ![r] = [IdleFlight EXCEPT !.pc = "entered", !.model = mid]]
    /\ UNCHANGED factoryVars

\* chat.py 36-73: get_adapter, the 404 or the 500 it leads to, or the call of
\* the adapter up to its first suspension
FlightResolve(r, fail) ==
    /\ flight[r].pc = "entered"
    /\ WithinBound(flight[r].model, fail)
    /\ LET mid == flight[r].model
           res == get_adapter(models, adapters, clients, mid, fail)
       IN  /\ adapters' = res.adapters
           /\ clients' = res.clients
           /\ flight' = [flight EXCEPT ![r] =
                  [pc |-> IF res.raised THEN "failed"
                          ELSE IF res.ret = NoAdapter THEN "notfound" ELSE "resolved",
                   model |-> mid,
                   adapter |-> res.ret,
                   enabled |-> mid \in DOMAIN models /\ models[mid].enabled,
                   fail |-> fail]]
    /\ UNCHANGED <<models, closing, issued, last>>

\* chat.py 73-130: the provider answers (or the error response is sent)
FlightFinish(r) ==
    /\ flight[r].pc \in {"resolved", "failed", "notfound"}
    /\ flight' = [flight EXCEPT ![r] = IdleFlight]
    /\ UNCHANGED factoryVars

(***************************************************************************)
(* The adapters' chat_completion_stream: provider lines to fragments       *)
(***************************************************************************)
MaxLines == 3

\* A line of the provider's response body.  sse: it begins with "data: ".
\* kind: what follows is a chunk object (with the texts it carries), the
\* literal [DONE], a JSON value that is not an object (null, 0), text that is
\* not JSON, or nothing.
Line(sse, kind, texts) == [sse |-> sse, kind |-> kind, texts |-> texts]

\* what an OpenAI-compatible server can send: events, separators, comments
OpenAILines ==
    { Line(TRUE, "chunk", <<>>), Line(TRUE, "chunk", <<"Hel">>), Line(TRUE, "chunk", <<"lo">>),
      Line(TRUE, "done", <<>>), Line(TRUE, "garbage", <<>>), Line(TRUE, "scalar", <<>>),
      Line(FALSE, "blank", <<>>), Line(FALSE, "garbage", <<>>) }

\* newline-delimited JSON: one object per line, any number of parts
GoogleLines ==
    { Line(FALSE, "chunk", <<>>), Line(FALSE, "chunk", <<"Hel">>), Line(FALSE, "chunk", <<"Hel", "lo">>),
      Line(FALSE, "garbage", <<>>), Line(FALSE, "scalar", <<>>), Line(FALSE, "blank", <<>>) }

Quiet == [yield |-> <<>>, stop |-> FALSE, raise |-> FALSE]

\* openai_adapter.py 69-83, one turn of the loop
OpenAIParseLine(line) ==
    \* 70
    IF ~line.sse THEN Quiet
    \* 72-73
    ELSE IF line.kind = "done" THEN [Quiet EXCEPT !.stop = TRUE]
    \* 77, 82-83: json.loads raises JSONDecodeError
    ELSE IF line.kind \in {"garbage", "blank"} THEN Quiet
    \* 78: `"choices" in data` on None or a number raises TypeError, which
    \* `except json.JSONDecodeError` does not catch
    ELSE IF line.kind = "scalar" THEN [Quiet EXCEPT !.raise = TRUE]
    \* 78-81
    ELSE IF line.texts = <<>> THEN Quiet
    ELSE [Quiet EXCEPT !.yield = <<line.texts[1]>>]

\* google_adapter.py 163-177, one turn of the loop
GoogleParseLine(line) ==
    \* 164
    IF line.kind = "blank" /\ ~line.sse THEN Quiet
    \* 168, 176-177: "data: ..." and "[DONE]" are not JSON
    ELSE IF line.sse \/ line.kind \in {"garbage", "done", "blank"} THEN Quiet
    \* 170: `"candidates" in data` raises TypeError
    ELSE IF line.kind = "scalar" THEN [Quiet EXCEPT !.raise = TRUE]
    \* 170-175: every part with a text
    ELSE [Quiet EXCEPT !.yield = line.texts]

ParseLine(variant, line) ==
    IF variant = "google" THEN GoogleParseLine(line) ELSE OpenAIParseLine(line)

ParseModel(variant) == IF variant = "google" THEN "m2" ELSE "m1"

ParseInit ==
    /\ tPc = "idle"
    /\ tVariant = "openai_compatible"
    /\ tInput = <<>>
    /\ tPos = 1
    /\ tOut = <<>>
    /\ tFrames = <<>>

\* chat.py 139-157: the initial chunk is sent and the adapter's stream is
\* opened; the provider answers with `lines`.  Every request has a generator
\* of its own (chat.py 66), so one stream is followed from its start.
AdapterStreamOpen(variant, lines) ==
    /\ tPc = "idle"
    /\ tPc' = "reading"
    /\ tVariant' = variant
    /\ tInput' = lines
    /\ tPos' = 1
    /\ tOut' = <<>>
    /\ tFrames' = <<InitialChunk(ParseModel(variant))>>

\* one line is read (openai_adapter.py 69-83, google_adapter.py 163-177) and
\* what it yields is forwarded (chat.py 157-171); an exception leaves the
\* adapter and is answered by the gateway (chat.py 189-210)
AdapterStreamLine ==
    /\ tPc = "reading"
    /\ tPos <= Len(tInput)
    /\ LET p == ParseLine(tVariant, tInput[tPos])
           model == ParseModel(tVariant)
       IN  IF p.raise
           THEN /\ tPc' = "raised"
                /\ tFrames' = tFrames \o <<ErrorChunk(model, "TypeError"), DoneFrame>>
                /\ UNCHANGED <<tPos, tOut>>
           ELSE IF p.stop
           THEN /\ tPc' = "ended"
                /\ tFrames' = tFrames \o <<FinalChunk(model), DoneFrame>>
                /\ UNCHANGED <<tPos, tOut>>
           ELSE /\ tOut' = tOut \o p.yield
                /\ tFrames' = tFrames \o [i \in 1..Len(p.yield) |-> ContentChunk(model, p.yield[i])]
                /\ tPos' = tPos + 1
                /\ tPc' = tPc
    /\ UNCHANGED <<tVariant, tInput>>

\* the provider's body ends (chat.py 173-187)
AdapterStreamEof ==
    /\ tPc = "reading"
    /\ tPos > Len(tInput)
    /\ tPc' = "ended"
    /\ tFrames' = tFrames \o <<FinalChunk(ParseModel(tVariant)), DoneFrame>>
    /\ UNCHANGED <<tVariant, tInput, tPos, tOut>>

(***************************************************************************)
(* GoogleAdapter._convert_messages                                         *)
(***************************************************************************)
MaxMessages == 3

\* base.py 6-9: role is any string; the three the comment names and one more
Roles == {"system", "user", "assistant", "tool"}
Contents == {"x", "y"}
ChatMessages == [role : Roles, content : Contents]

\* systemInstruction: None
NoInstruction == <<>>

\* google_adapter.py 38-53: the turns
RECURSIVE convert_contents(_)
convert_contents(messages) ==
    IF messages = <<>> THEN <<>>
    ELSE LET msg == Head(messages)
             rest == convert_contents(Tail(messages))
         IN  IF msg.role = "system" THEN rest
             ELSE IF msg.role = "user" THEN <<[role |-> "user", text |-> msg.content]>> \o rest
             ELSE IF msg.role = "assistant" THEN <<[role |-> "model", text |-> msg.content]>> \o rest
             ELSE rest

\* google_adapter.py 55-60: the parts of the system instruction; the loop ends
\* at the first system message
RECURSIVE convert_system(_)
convert_system(messages) ==
    IF messages = <<>> THEN NoInstruction
    ELSE IF Head(messages).role = "system" THEN <<Head(messages).content>>
    ELSE convert_system(Tail(messages))

\* google_adapter.py 35-65
convert_messages(messages) ==
    [contents |-> convert_contents(messages), systemInstruction |-> convert_system(messages)]

ConvertInit ==
    /\ gPc = "idle"
    /\ gMessages = <<>>
    /\ gPayload = [contents |-> <<>>, systemInstruction |-> NoInstruction]

\* google_adapter.py 79 and 150: message_data = self._convert_messages(request.messages)
ConvertMessages(messages) ==
    /\ gPc = "idle"
    /\ gPc' = "converted"
    /\ gMessages' = messages
    /\ gPayload' = convert_messages(messages)

(***************************************************************************)
(* CreateAuthChallenge with its mail dispatch                              *)
(***************************************************************************)
CodeLength == 6
\* string.digits, two digits standing for the ten
Digits == {"0", "7"}
\* create_auth.py 26: ''.join(random.choices(string.digits, k=6))
RandomCodes == [1..CodeLength -> Digits]

\* request.userAttributes.email: missing, empty, or an address
EmailValues == {AbsentValue, Str(<<>>), Str(<<"u", "@", "x">>)}
CreateChallengeNames == {"CUSTOM_CHALLENGE", "PASSWORD_VERIFIER"}
\* create_auth.py 46 and utils.py 42-46: boto3.client or send_email may raise
DispatchOutcomes == {"sent", "client_raises", "send_raises"}

NoParameters == [code |-> AbsentValue, email |-> AbsentValue, trigger |-> Absent]
NoMail == [to |-> AbsentValue, code |-> AbsentValue]

Untouched ==
    [raised |-> FALSE, generated |-> AbsentValue,
     privateChallengeParameters |-> NoParameters,
     publicChallengeParameters |-> NoParameters,
     challengeMetadata |-> Absent, mail |-> NoMail, log |-> <<>>]

\* the handler with the try of lines 43-51 left out
create_auth_handler_unguarded(challengeName, email, code, dispatch) ==
    IF challengeName # "CUSTOM_CHALLENGE" THEN Untouched
    ELSE IF email.kind = Absent \/ email.s = <<>> THEN [Untouched EXCEPT !.raised = TRUE]
    ELSE LET set == [Untouched EXCEPT
                        !.generated = Str(code),
                        !.privateChallengeParameters = [code |-> Str(code), email |-> email, trigger |-> Absent],
                        !.publicChallengeParameters = [code |-> AbsentValue, email |-> email, trigger |-> "true"]]
         IN  IF dispatch = "sent"
             THEN [set EXCEPT !.mail = [to |-> email, code |-> Str(code)],
                              !.log = <<"email_sent">>,
                              !.challengeMetadata = "EMAIL_CHALLENGE"]
             ELSE [set EXCEPT !.raised = TRUE,
                              !.log = IF dispatch = "send_raises" THEN <<"email_failed">> ELSE <<>>]

\* create_auth.py 11-55: handler
create_auth_handler(challengeName, email, code, dispatch) ==
    \* 19
    IF challengeName # "CUSTOM_CHALLENGE" THEN Untouched
    \* 21-23: ValueError
    ELSE IF email.kind = Absent \/ email.s = <<>> THEN [Untouched EXCEPT !.raised = TRUE]
    ELSE LET \* 26-38
             set == [Untouched EXCEPT
                        !.generated = Str(code),
                        !.privateChallengeParameters = [code |-> Str(code), email |-> email, trigger |-> Absent],
                        !.publicChallengeParameters = [code |-> AbsentValue, email |-> email, trigger |-> "true"],
                        !.challengeMetadata = "EMAIL_CHALLENGE"]
         IN  \* 49 and utils.py 37-47
             IF dispatch = "sent"
             THEN [set EXCEPT !.mail = [to |-> email, code |-> Str(code)],
                              !.log = <<"email_sent">>]
             \* utils.py 48-52 logs and raises again; create_auth.py 50-51 logs
             ELSE IF dispatch = "send_raises"
             THEN [set EXCEPT !.log = <<"email_failed", "email_send_failed">>]
             \* 46 raised: only create_auth.py 50-51 logs
             ELSE [set EXCEPT !.log = <<"email_send_failed">>]

NoCreateInput ==
    [challengeName |-> "PASSWORD_VERIFIER", email |-> AbsentValue,
     code |-> [i \in 1..CodeLength |-> "0"], dispatch |-> "sent"]

CreateInit ==
    /\ kPc = "idle"
    /\ kIn = NoCreateInput
    /\ kOut = Untouched

\* one invocation of the trigger (a Lambda invocation keeps no state)
CreateInvoke(challengeName, email, code, dispatch) ==
    /\ kPc = "idle"
    /\ LET r == create_auth_handler(challengeName, email, code, dispatch)
       IN  /\ kOut' = r
           /\ kPc' = IF r.raised THEN "raised" ELSE "returned"
    /\ kIn' = [challengeName |-> challengeName, email |-> email, code |-> code, dispatch |-> dispatch]

(***************************************************************************)
(* AdapterFactory.health_check_all                                         *)
(***************************************************************************)
MaxModels == 2
HealthIds == <<"m1", "m2", "m3", "m4">>
Providers == {ProviderP, ProviderQ}

\* The configurations a registry is made of: one provider at two api_base
\* values, a second provider, an anthropic model, a disabled model.
HealthCatalogue ==
    { [client_type |-> "openai_compatible", provider |-> ProviderP, api_base |-> NoBase,
       api_key_env |-> "OPENAI_API_KEY", enabled |-> TRUE],
      [client_type |-> "openai_compatible", provider |-> ProviderP, api_base |-> BaseX,
       api_key_env |-> "OPENAI_API_KEY", enabled |-> TRUE],
      [client_type |-> "google", provider |-> ProviderQ, api_base |-> NoBase,
       api_key_env |-> "GOOGLE_API_KEY", enabled |-> TRUE],
      [client_type |-> "anthropic", provider |-> ProviderQ, api_base |-> BaseX,
       api_key_env |-> "ANTHROPIC_API_KEY", enabled |-> TRUE],
      [client_type |-> "openai_compatible", provider |-> ProviderP, api_base |-> BaseX,
       api_key_env |-> "OPENAI_API_KEY", enabled |-> FALSE] }

Registries == SeqsUpTo(HealthCatalogue, MaxModels)

\* the registry as model_id -> ModelConfig (models.py 116-118)
RegistryOf(ms) == [mid \in {HealthIds[i] : i \in 1..Len(ms)} |->
                      ms[CHOOSE i \in 1..Len(ms) : HealthIds[i] = mid]]

\* adapter_factory.py 122-127: adapter_to_models, a dict in insertion order,
\* over list_models(enabled_only=True) (models.py 124-129)
RECURSIVE GroupModels(_, _, _)
GroupModels(ms, i, groups) ==
    IF i > Len(ms) THEN groups
    ELSE IF ~ms[i].enabled THEN GroupModels(ms, i + 1, groups)
    ELSE LET key == AdapterKey(ms[i])
         IN  IF \E g \in 1..Len(groups) : groups[g].key = key
             THEN GroupModels(ms, i + 1,
                     [g \in 1..Len(groups) |->
                         IF groups[g].key = key
                         THEN [groups[g] EXCEPT !.models = Append(@, HealthIds[i])]
                         ELSE groups[g]])
             ELSE GroupModels(ms, i + 1,
                     Append(groups, [key |-> key, provider |-> ms[i].provider,
                                     models |-> <<HealthIds[i]>>]))

NoEntry == [status |-> "none", models |-> <<>>]
ProbeOutcomes == {"true", "false", "raises"}

HealthInit ==
    /\ hPc = "idle"
    /\ hModels = <<>>
    /\ hGroups = <<>>
    /\ hStatus = [p \in Providers |-> NoEntry]
    /\ hProbes = <<>>
    /\ hCache = [adapters |-> <<>>, clients |-> <<>>]

\* adapter_factory.py 117-127 on a registry ms
HealthBegin(ms) ==
    /\ hPc = "idle"
    /\ hModels' = ms
    /\ hGroups' = GroupModels(ms, 1, <<>>)
    /\ hPc' = IF GroupModels(ms, 1, <<>>) = <<>> THEN "done" ELSE "checking"
    /\ UNCHANGED <<hStatus, hProbes, hCache>>

\* adapter_factory.py 130-158: one turn of the loop.  `fail`: the adapter's
\* constructor raises; `outcome`: what await adapter.health_check() does.
HealthCheckOne(fail, outcome) ==
    /\ hPc = "checking"
    /\ LET group == Head(hGroups)
           reg == RegistryOf(hModels)
           res == get_adapter(reg, hCache.adapters, hCache.clients, group.models[1], fail)
           probed == ~res.raised /\ res.ret # NoAdapter
           status == IF res.raised THEN "error"
                     ELSE IF res.ret = NoAdapter THEN "unavailable"
                     ELSE IF outcome = "true" THEN "available"
                     ELSE IF outcome = "false" THEN "unavailable"
                     ELSE "error"
       IN  /\ fail => Constructs(reg, hCache.adapters, group.models[1])
           /\ ~probed => outcome = "true"
           /\ hCache' = [adapters |-> res.adapters, clients |-> res.clients]
           /\ hProbes' = IF probed
                         THEN Append(hProbes, [key |-> group.key, provider |-> group.provider,
                                               outcome |-> outcome])
                         ELSE hProbes
           \* 139-142, 144-148, 154-158: health_status[provider] = {...}
           /\ hStatus' = [hStatus EXCEPT ![group.provider] =
                              [status |-> status, models |-> group.models]]
    /\ hGroups' = Tail(hGroups)
    /\ hPc' = IF Tail(hGroups) = <<>> THEN "done" ELSE "checking"
    /\ UNCHANGED hModels

(***************************************************************************)
(* UserManager: users, the session table and the per-user session index    *)
(***************************************************************************)
MaxSessionIds == 2
UserIds == {"u1", "u2"}
SessionIds == 1..MaxSessionIds
\* get_session returns None
NoSessionId == 0

\* a key that _sessions does not hold
NoSession == [present |-> FALSE, user_id |-> "u1", expired |-> FALSE]
\* a key that _user_sessions does not hold
NoIndex == [present |-> FALSE, ids |-> <<>>]

Range(s) == {s[i] : i \in DOMAIN s}

\* list.remove(x) on a list that holds x: the first occurrence goes
RemoveFirst(s, x) ==
    LET k == CHOOSE i \in DOMAIN s : s[i] = x /\ \A j \in 1..(i - 1) : s[j] # x
    IN  [i \in 1..(Len(s) - 1) |-> IF i < k THEN s[i] ELSE s[i + 1]]

\* user_manager.py 19-51: create_or_update_user
create_or_update_user(st, u) ==
    IF u \in st.users THEN st
    ELSE [st EXCEPT !.users = @ \cup {u},
                    \* 45
                    !.index[u] = [present |-> TRUE, ids |-> <<>>]]

\* user_manager.py 102-117: create_session
create_session(st, sid, u) ==
    [st EXCEPT !.table[sid] = [present |-> TRUE, user_id |-> u, expired |-> FALSE],
               !.index[u] = [present |-> TRUE, ids |-> Append(st.index[u].ids, sid)]]

\* user_manager.py 142-154: delete_session
delete_session(st, sid) ==
    IF ~st.table[sid].present THEN [st |-> st, ret |-> FALSE]
    ELSE LET u == st.table[sid].user_id
         IN  [st |-> [st EXCEPT !.table[sid] = NoSession,
                                !.index[u].ids = IF sid \in Range(@) THEN RemoveFirst(@, sid) ELSE @],
              ret |-> TRUE]

\* user_manager.py 119-128: get_session
get_session(st, sid) ==
    IF st.table[sid].present /\ st.table[sid].expired
    THEN [st |-> delete_session(st, sid).st, ret |-> NoSessionId]
    ELSE [st |-> st, ret |-> IF st.table[sid].present THEN sid ELSE NoSessionId]

\* user_manager.py 156-166: delete_user_sessions, the loop over the copy
RECURSIVE delete_each(_, _)
delete_each(st, ids) ==
    IF ids = <<>> THEN st ELSE delete_each(delete_session(st, Head(ids)).st, Tail(ids))

delete_user_sessions(st, u) == delete_each(st, st.index[u].ids)

\* user_manager.py 80-100: delete_user
delete_user(st, u) ==
    IF u \notin st.users THEN [st |-> st, ret |-> FALSE]
    ELSE [st |-> [st EXCEPT
                     \* 87-89
                     !.table = [sid \in SessionIds |->
                                   IF sid \in Range(st.index[u].ids) THEN NoSession ELSE st.table[sid]],
                     \* 92-93
                     !.users = @ \ {u},
                     !.index[u] = NoIndex],
          ret |-> TRUE]

\* user_manager.py 173-179: the loop of get_user_sessions over the copy of the
\* list; session_ids is the list object of _user_sessions itself, the one
\* delete_session removes from
RECURSIVE get_each(_, _, _, _)
get_each(st, u, ids, found) ==
    IF ids = <<>> THEN [st |-> st, ret |-> found, raised |-> FALSE]
    ELSE LET r == get_session(st, Head(ids))
         IN  IF r.ret # NoSessionId
             THEN get_each(r.st, u, Tail(ids), Append(found, Head(ids)))
             \* 179: list.remove raises ValueError when the id is not in the list
             ELSE IF Head(ids) \notin Range(r.st.index[u].ids)
             THEN [st |-> r.st, ret |-> found, raised |-> TRUE]
             ELSE get_each([r.st EXCEPT !.index[u].ids = RemoveFirst(@, Head(ids))],
                           u, Tail(ids), found)

\* user_manager.py 168-181: get_user_sessions
get_user_sessions(st, u) == get_each(st, u, st.index[u].ids, <<>>)

NoCall == [op |-> "none", user_id |-> "u1", ok |-> FALSE, raised |-> FALSE,
           sessions |-> <<>>, active |-> {}]

UserInit ==
    /\ uStore = [users |-> {},
                 table |-> [sid \in SessionIds |-> NoSession],
                 index |-> [u \in UserIds |-> NoIndex]]
    /\ uLast = NoCall

CreateOrUpdateUser(u) ==
    /\ uStore' = create_or_update_user(uStore, u)
    /\ uLast' = [NoCall EXCEPT !.op = "create_or_update_user", !.user_id = u]

\* session_id is a unique identifier (auth/models.py 68): one that is neither
\* in the table nor in an index
CreateSession(sid, u) ==
    /\ ~uStore.table[sid].present
    /\ \A v \in UserIds : sid \notin Range(uStore.index[v].ids)
    /\ uStore' = create_session(uStore, sid, u)
    /\ uLast' = [NoCall EXCEPT !.op = "create_session", !.user_id = u]

\* time passes beyond a session's expires_at
Expire(sid) ==
    /\ uStore.table[sid].present
    /\ ~uStore.table[sid].expired
    /\ uStore' = [uStore EXCEPT !.table[sid].expired = TRUE]
    /\ uLast' = [NoCall EXCEPT !.op = "expire"]

GetSession(sid) ==
    /\ uStore' = get_session(uStore, sid).st
    /\ uLast' = [NoCall EXCEPT !.op = "get_session"]

DeleteSession(sid) ==
    /\ uStore' = delete_session(uStore, sid).st
    /\ uLast' = [NoCall EXCEPT !.op = "delete_session", !.ok = delete_session(uStore, sid).ret]

DeleteUserSessions(u) ==
    /\ uStore' = delete_user_sessions(uStore, u)
    /\ uLast' = [NoCall EXCEPT !.op = "delete_user_sessions", !.user_id = u]

DeleteUser(u) ==
    /\ uStore' = delete_user(uStore, u).st
    /\ uLast' = [NoCall EXCEPT !.op = "delete_user", !.user_id = u,
                               !.ok = delete_user(uStore, u).ret]

\* `active` notes the sessions of u that had not expired when the call began
GetUserSessions(u) ==
    /\ LET r == get_user_sessions(uStore, u)
       IN  /\ uStore' = r.st
           /\ uLast' = [op |-> "get_user_sessions", user_id |-> u, ok |-> ~r.raised,
                        raised |-> r.raised, sessions |-> r.ret,
                        active |-> {sid \in SessionIds :
                                       /\ uStore.table[sid].present
                                       /\ uStore.table[sid].user_id = u
                                       /\ ~uStore.table[sid].expired}]

(***************************************************************************)
(* Login callback, onboarding, refresh and logout of one user              *)
(***************************************************************************)
\* institution: None
NoInstitution == "none"
\* the institution registry (cognito_client.py 40-75, InstitutionConfig.enabled)
InstitutionRegistry == [example |-> TRUE, testcollege |-> TRUE, closed |-> FALSE]
\* what a client can send as institution_id: nothing, a registered id, another
InstitutionIds == {NoInstitution, "example", "testcollege", "closed", "nowhere"}
\* get_institution_by_domain (cognito_client.py 77-79) of the email's domain
LoginInstitutions == {NoInstitution, "example", "closed"}

NoClaims == [present |-> FALSE, role |-> "guest", institution |-> NoInstitution]

\* cognito_client.py 158-180: get_user_info assigns student to the users of a
\* registered domain and guest to the others
get_user_info(institution) ==
    [role |-> IF institution # NoInstitution THEN "student" ELSE "guest",
     institution |-> institution]

\* cognito_client.py 244-266: the role and institution claims of the token
create_internal_jwt(user) ==
    [present |-> TRUE, role |-> user.role, institution |-> user.institution]

\* middleware.py 94-102 and 116-121: current_user as rebuilt from the claims
\* of the bearer token
current_user(token) == [role |-> token.role, institution |-> token.institution]

\* cognito_client.py 81-86 and auth.py 158-164
ValidInstitution(id) == id \in DOMAIN InstitutionRegistry /\ InstitutionRegistry[id]

\* auth.py 143-190: complete_onboarding
complete_onboarding(token, role, institution_id) ==
    \* 158-164
    IF institution_id # NoInstitution /\ ~ValidInstitution(institution_id)
    THEN [status |-> 400, token |-> token]
    \* 167-181: role and institution are the request's
    ELSE [status |-> 200,
          token |-> create_internal_jwt([role |-> role, institution |-> institution_id])]

\* auth.py 222-251: refresh_access_token
refresh_access_token(token) == create_internal_jwt(current_user(token))

NoAuthCall == [op |-> "none", status |-> 0, role |-> "guest", institution_id |-> NoInstitution]

OnboardInit ==
    /\ oLogin = [role |-> "guest", institution |-> NoInstitution]
    /\ oToken = NoClaims
    /\ oLast = NoAuthCall

\* auth.py 87-140: GET /callback after the provider authenticated the user
LoginCallback(institution) ==
    /\ oLogin' = get_user_info(institution)
    /\ oToken' = create_internal_jwt(get_user_info(institution))
    /\ oLast' = [NoAuthCall EXCEPT !.op = "callback", !.status = 200]

\* POST /onboarding with the token held
Onboarding(role, institution_id) ==
    /\ oToken.present
    /\ LET r == complete_onboarding(oToken, role, institution_id)
       IN  /\ oToken' = r.token
           /\ oLast' = [op |-> "onboarding", status |-> r.status, role |-> role,
                        institution_id |-> institution_id]
    /\ UNCHANGED oLogin

\* POST /refresh with the token held
Refresh ==
    /\ oToken.present
    /\ oToken' = refresh_access_token(oToken)
    /\ oLast' = [NoAuthCall EXCEPT !.op = "refresh", !.status = 200]
    /\ UNCHANGED oLogin

\* POST /logout (auth.py 254-291): the token is put on the blacklist, which
\* no verification reads; the client drops it
LogoutUser ==
    /\ oToken.present
    /\ oToken' = NoClaims
    /\ oLast' = [NoAuthCall EXCEPT !.op = "logout", !.status = 200]
    /\ UNCHANGED oLogin

(***************************************************************************)
(* Specifications                                                          *)
(***************************************************************************)
\* The settings and the middleware of the application as it stands: main.py
\* adds no AuthenticationMiddleware and settings.py 46-47 gives the defaults.
AuthInitAsBuilt ==
    /\ AuthInit
    /\ aCfg = [middleware |-> "absent", enable_auth |-> FALSE,
               auth_required_endpoints |-> DefaultRequiredEndpoints]

Init == StreamInit /\ DefineInit /\ VerifyInit /\ ChatInit /\ ServiceInit /\ PermInit /\ LoginInit /\ FlightInit /\ ParseInit /\ ConvertInit /\ CreateInit /\ HealthInit /\ UserInit /\ OnboardInit /\ FactoryInit /\ AuthInitAsBuilt

Next ==
    /\ \/ \E mid \in RegisterIds, cfg \in Catalogue : Register(mid, cfg)
       \/ \E mid \in ModelIds : Disable(mid)
       \/ \E mid \in ModelIds : Enable(mid)
       \/ \E mid \in ModelIds, fail \in BOOLEAN : Resolve(mid, fail)
       \/ \E mid \in ModelIds, stream \in BOOLEAN, fail \in BOOLEAN, callRaises \in BOOLEAN :
             ChatCompletion(mid, stream, fail, callRaises)
       \/ ListModels
       \/ CloseAllBegin
       \/ \E acloseRaises \in BOOLEAN : CloseOne(acloseRaises)
    /\ UNCHANGED <<streamVars, defineVars, authVars, verifyVars, chatVars, serviceVars, permVars, loginVars, flightVars, parseVars, convertVars, createVars, healthVars, userVars, onboardVars>>

Spec == Init /\ [][Next]_vars

NextStream ==
    /\ \/ \E m \in StreamModelIds : StreamOpen(m)
       \/ StreamInitial
       \/ \E c \in Fragments : StreamDelta(c)
       \/ StreamEnd
       \/ \E e \in StreamErrors : StreamRaise(e)
       \/ StreamDone
    /\ UNCHANGED <<defineVars, factoryVars, authVars, verifyVars, chatVars, serviceVars, permVars, loginVars, flightVars, parseVars, convertVars, createVars, healthVars, userVars, onboardVars>>

SpecStream == Init /\ [][NextStream]_vars

NextDefine ==
    /\ \/ \E s \in SessionInputs : DefineInvoke(s)
       \/ DefineReturn
    /\ UNCHANGED <<streamVars, factoryVars, authVars, verifyVars, chatVars, serviceVars, permVars, loginVars, flightVars, parseVars, convertVars, createVars, healthVars, userVars, onboardVars>>

SpecDefine == Init /\ [][NextDefine]_vars

NextVerify ==
    /\ \/ \E expected \in CodeValues, provided \in CodeValues : VerifyInvoke(expected, provided)
       \/ VerifyReturn
    /\ UNCHANGED <<streamVars, defineVars, factoryVars, authVars, chatVars, serviceVars, permVars, loginVars, flightVars, parseVars, convertVars, createVars, healthVars, userVars, onboardVars>>

SpecVerify == Init /\ [][NextVerify]_vars

InitChat ==
    /\ StreamInit /\ DefineInit /\ VerifyInit /\ ChatInit /\ ServiceInit /\ PermInit /\ LoginInit /\ FlightInit /\ ParseInit /\ ConvertInit /\ CreateInit /\ HealthInit /\ UserInit /\ OnboardInit
    /\ AuthInitAsBuilt
    /\ ChatFactoryInit

NextChat ==
    /\ \E req \in ChatRequests, fail \in BOOLEAN :
          \E answer \in AnswersFor(req) : ChatPost(req, fail, answer)
    /\ UNCHANGED <<streamVars, defineVars, verifyVars, authVars, serviceVars, permVars, loginVars, flightVars, parseVars, convertVars, createVars, healthVars, userVars, onboardVars>>

SpecChat == InitChat /\ [][NextChat]_vars

NextService ==
    /\ \/ \E mid \in ModelIds, fail \in BOOLEAN : Serve(mid, fail)
       \/ \E mid \in ModelIds, stream \in BOOLEAN, fail \in BOOLEAN, callRaises \in BOOLEAN :
             ServeChat(mid, stream, fail, callRaises)
       \/ UvicornReturns
       \/ UvicornRaises
       \/ ShutdownBegin
       \/ \E acloseRaises \in BOOLEAN : ShutdownCloseOne(acloseRaises)
    /\ UNCHANGED <<streamVars, defineVars, verifyVars, chatVars, authVars, permVars, loginVars, flightVars, parseVars, convertVars, createVars, healthVars, userVars, onboardVars>>

SpecService == InitChat /\ [][NextService]_vars

NextPerm ==
    /\ \E endpoint \in Endpoints, method \in Methods, user_role \in UserRoles :
          CheckPermission(endpoint, method, user_role)
    /\ UNCHANGED <<streamVars, defineVars, verifyVars, chatVars, factoryVars, authVars, serviceVars, loginVars, flightVars, parseVars, convertVars, createVars, healthVars, userVars, onboardVars>>

SpecPerm == Init /\ [][NextPerm]_vars

NextLogin ==
    /\ \/ LoginDefine
       \/ \E hasEmail \in BOOLEAN, code \in GeneratedCodes : LoginCreate(hasEmail, code)
       \/ \E answer \in Answers : LoginVerify(answer)
    /\ UNCHANGED <<streamVars, defineVars, verifyVars, chatVars, factoryVars, authVars, serviceVars, permVars, flightVars, parseVars, convertVars, createVars, healthVars, userVars, onboardVars>>

SpecLogin == Init /\ [][NextLogin]_vars

InitAuth == StreamInit /\ DefineInit /\ VerifyInit /\ ChatInit /\ ServiceInit /\ PermInit /\ LoginInit /\ FlightInit /\ ParseInit /\ ConvertInit /\ CreateInit /\ HealthInit /\ UserInit /\ OnboardInit /\ FactoryInit /\ AuthInit

NextAuth ==
    /\ \/ \E path \in RequestPaths, hdr \in Headers : Request(path, hdr)
       \/ \E hdr \in Headers : Logout(hdr)
    /\ UNCHANGED <<streamVars, defineVars, factoryVars, verifyVars, chatVars, serviceVars, permVars, loginVars, flightVars, parseVars, convertVars, createVars, healthVars, userVars, onboardVars>>

SpecAuth == InitAuth /\ [][NextAuth]_vars

InitFlight ==
    /\ StreamInit /\ DefineInit /\ VerifyInit /\ ChatInit /\ ServiceInit /\ PermInit /\ LoginInit /\ FlightInit /\ ParseInit /\ ConvertInit /\ CreateInit /\ HealthInit /\ UserInit /\ OnboardInit
    /\ AuthInitAsBuilt
    /\ FlightFactoryInit

NextFlight ==
    /\ \/ \E r \in Flights, mid \in ModelIds : FlightArrive(r, mid)
       \/ \E r \in Flights, fail \in BOOLEAN : FlightResolve(r, fail)
       \/ \E r \in Flights : FlightFinish(r)
       \/ \E mid \in ModelIds : Disable(mid) /\ UNCHANGED flight
       \/ \E mid \in ModelIds : Enable(mid) /\ UNCHANGED flight
    /\ UNCHANGED <<streamVars, defineVars, verifyVars, chatVars, authVars, serviceVars, permVars, loginVars, parseVars, convertVars, createVars, healthVars, userVars, onboardVars>>

SpecFlight == InitFlight /\ [][NextFlight]_vars

NextParse ==
    /\ \/ \E lines \in SeqsUpTo(OpenAILines, MaxLines) : AdapterStreamOpen("openai_compatible", lines)
       \/ \E lines \in SeqsUpTo(GoogleLines, MaxLines) : AdapterStreamOpen("google", lines)
       \/ AdapterStreamLine
       \/ AdapterStreamEof
    /\ UNCHANGED <<streamVars, defineVars, factoryVars, verifyVars, chatVars, authVars, serviceVars, permVars, loginVars, flightVars, convertVars, createVars, healthVars, userVars, onboardVars>>

SpecParse == Init /\ [][NextParse]_vars

NextConvert ==
    /\ \E messages \in SeqsUpTo(ChatMessages, MaxMessages) : ConvertMessages(messages)
    /\ UNCHANGED <<streamVars, defineVars, factoryVars, verifyVars, chatVars, authVars, serviceVars, permVars, loginVars, flightVars, parseVars, createVars, healthVars, userVars, onboardVars>>

SpecConvert == Init /\ [][NextConvert]_vars

NextCreate ==
    /\ \E challengeName \in CreateChallengeNames, email \in EmailValues,
          code \in RandomCodes, dispatch \in DispatchOutcomes :
          CreateInvoke(challengeName, email, code, dispatch)
    /\ UNCHANGED <<streamVars, defineVars, factoryVars, verifyVars, chatVars, authVars, serviceVars, permVars, loginVars, flightVars, parseVars, convertVars, healthVars, userVars, onboardVars>>

SpecCreate == Init /\ [][NextCreate]_vars

NextHealth ==
    /\ \/ \E ms \in Registries : HealthBegin(ms)
       \/ \E fail \in BOOLEAN, outcome \in ProbeOutcomes : HealthCheckOne(fail, outcome)
    /\ UNCHANGED <<streamVars, defineVars, factoryVars, verifyVars, chatVars, authVars, serviceVars, permVars, loginVars, flightVars, parseVars, convertVars, createVars, userVars, onboardVars>>

SpecHealth == Init /\ [][NextHealth]_vars

NextOnboard ==
    /\ \/ \E institution \in LoginInstitutions : LoginCallback(institution)
       \/ \E role \in UserRoles, institution_id \in InstitutionIds : Onboarding(role, institution_id)
       \/ Refresh
       \/ LogoutUser
    /\ UNCHANGED <<streamVars, defineVars, factoryVars, verifyVars, chatVars, authVars, serviceVars, permVars, loginVars, flightVars, parseVars, convertVars, createVars, healthVars, userVars>>

SpecOnboard == Init /\ [][NextOnboard]_vars

UserOperation ==
    \/ \E u \in UserIds : CreateOrUpdateUser(u)
    \/ \E sid \in SessionIds, u \in UserIds : CreateSession(sid, u)
    \/ \E sid \in SessionIds : Expire(sid)
    \/ \E sid \in SessionIds : GetSession(sid)
    \/ \E sid \in SessionIds : DeleteSession(sid)
    \/ \E u \in UserIds : DeleteUserSessions(u)
    \/ \E u \in UserIds : DeleteUser(u)

NextUsers ==
    /\ UserOperation
    /\ UNCHANGED <<streamVars, defineVars, factoryVars, verifyVars, chatVars, authVars, serviceVars, permVars, loginVars, flightVars, parseVars, convertVars, createVars, healthVars, onboardVars>>

SpecUsers == Init /\ [][NextUsers]_vars

NextSessions ==
    /\ \/ UserOperation
       \/ \E u \in UserIds : GetUserSessions(u)
    /\ UNCHANGED <<streamVars, defineVars, factoryVars, verifyVars, chatVars, authVars, serviceVars, permVars, loginVars, flightVars, parseVars, convertVars, createVars, healthVars, onboardVars>>

SpecSessions == Init /\ [][NextSessions]_vars

(***************************************************************************)
(* C1, C2: the frames of a streaming response                              *)
(***************************************************************************)
IsContentDelta(f) ==
    /\ f.kind = "chunk"
    /\ f.role = Absent
    /\ f.content \in Fragments
    /\ f.finish_reason = Null

IsInitial(f) ==
    /\ f.kind = "chunk"
    /\ f.role = "assistant"
    /\ f.content = ""
    /\ f.finish_reason = Null

IsTerminal(f) == f.kind = "chunk" /\ f.finish_reason = "stop"

IsError(f) == f.kind = "error"

Count(P(_), s) == Cardinality({i \in 1..Len(s) : P(s[i])})

IsDone(f) == f.kind = "done"

\* initial, one content delta per fragment of the adapter, then `last`, then [DONE]
ShapedWith(frames, IsLast(_)) ==
    LET n == Len(frames)
    IN  /\ n = Len(sYielded) + 3
        /\ IsInitial(frames[1])
        /\ \A i \in 2..(n - 2) : frames[i] = ContentChunk(sModel, sYielded[i - 1])
        /\ IsLast(frames[n - 1])
        /\ IsDone(frames[n])
        /\ Count(IsInitial, frames) = 1
        /\ Count(IsDone, frames) = 1

\* C1 (as stated): every finished streaming response, also one whose adapter
\* raised partway, is: one initial frame, the content deltas, one terminal frame
\* with finish_reason "stop", then [DONE].
C1_AlwaysTerminalStop ==
    sPc = "done" =>
        /\ ShapedWith(sFrames, IsTerminal)
        /\ Count(IsTerminal, sFrames) = 1

\* C1 (amended): a finished response whose adapter did not raise is: one initial
\* frame, one content delta per fragment in order, exactly one terminal frame
\* with finish_reason "stop", then [DONE]; one whose adapter raised after k
\* fragments is: the initial frame, the k content deltas, one error frame and no
\* frame with finish_reason "stop", then [DONE].
C1_FrameSequence ==
    /\ (sPc # "new" /\ sPc # "idle") => IsInitial(sFrames[1])
    /\ (sPc = "done" /\ sLog = Null) =>
            /\ ShapedWith(sFrames, IsTerminal)
            /\ Count(IsTerminal, sFrames) = 1
            /\ Count(IsError, sFrames) = 0
    /\ (sPc = "done" /\ sLog # Null) =>
            /\ ShapedWith(sFrames, IsError)
            /\ Count(IsTerminal, sFrames) = 0
            /\ Count(IsError, sFrames) = 1

C1_Witness ==
    /\ sPc = "done"
    /\ sLog = Null
    /\ Len(sYielded) = 2
    /\ Len(sFrames) = 5

\* C2: when the adapter's stream raises (before the first fragment or after k
\* of them) the response carries exactly one error frame, with the fixed generic
\* message, directly followed by exactly one [DONE], which is the last frame; in
\* every run [DONE] occurs at most once, only as the last frame, and a finished
\* run has it.
C2_ErrorThenDone ==
    LET n == Len(sFrames)
    IN  /\ Count(IsDone, sFrames) <= 1
        /\ \A i \in 1..n : IsDone(sFrames[i]) => i = n
        /\ (sPc = "done") <=> (n > 0 /\ IsDone(sFrames[n]))
        /\ (sLog # Null) =>
              /\ Count(IsError, sFrames) = 1
              /\ \A i \in 1..n : IsError(sFrames[i]) =>
                    /\ i = Len(sYielded) + 2
                    /\ sFrames[i].message = "Stream interrupted due to error"
                    /\ sFrames[i].type = "server_error"
                    /\ i = IF sPc = "done" THEN n - 1 ELSE n
        /\ (sLog = Null) => Count(IsError, sFrames) = 0

C2_Witness ==
    /\ sPc = "done"
    /\ sLog # Null
    /\ Len(sYielded) = 2
    /\ IsError(sFrames[4])
    /\ IsDone(sFrames[5])


(***************************************************************************)
(* C3 - C6: the adapter cache                                              *)
(***************************************************************************)
IsLookup(op) == op \in {"resolve", "chat", "chat_stream"}

\* C3: between two clearings of the cache, all the adapters that get_adapter
\* returned for one cache key (provider, api_base or "default") are the same
\* instance, whichever model ids asked and whatever register, enable and
\* disable calls came in between; the cache holds one entry per key and the
\* entry of a key that was returned is still the instance that was returned.
C3_SameInstance ==
    /\ \A p, q \in issued : p[1] = q[1] => p[3] = q[3]
    /\ \A p \in issued : InCache(adapters, p[1]) /\ CacheGet(adapters, p[1]) = p[3]
    /\ \A i, j \in 1..Len(adapters) : adapters[i].key = adapters[j].key => i = j
    /\ (IsLookup(last.op) /\ last.ret # NoAdapter) =>
            <<AdapterKey(models[last.model]), last.model, last.ret>> \in issued

C3_Witness ==
    /\ last.op = "resolve"
    /\ last.model = "m2"
    /\ \E p, q \in issued :
          /\ p[2] = "m1"
          /\ q[2] = "m2"
          /\ p[1] = q[1]
          /\ p[3] = last.ret

\* C4: get_adapter for a model id that is not registered or is disabled
\* returns None: no exception, no constructor call, no new instance, the cache
\* as it was; the chat route answers 404 with the model-not-found detail and
\* runs no adapter, for stream=true and for stream=false.
C4_AbsentModel ==
    [][ (/\ IsLookup(last'.op)
         /\ (last'.model \notin DOMAIN models' \/ ~models'[last'.model].enabled))
        => /\ last'.ret = NoAdapter
           /\ ~last'.raised
           /\ ~last'.cfail
           /\ adapters' = adapters
           /\ clients' = clients
           /\ last'.op \in {"chat", "chat_stream"} =>
                 /\ last'.status = 404
                 /\ last'.detail = NotFoundDetail
                 /\ last'.used = NoAdapter ]_vars

C4_Witness ==
    /\ last.op = "chat_stream"
    /\ last.status = 404
    /\ last.model \in DOMAIN models
    /\ ~models[last.model].enabled
    /\ InCache(adapters, AdapterKey(models[last.model]))

\* C5 (as stated): when the constructor of the adapter raises, for any
\* client_type, get_adapter returns None, lets no exception out and leaves the
\* cache without an entry for the key.
C5_ConstructionFailureIsAbsent ==
    (IsLookup(last.op) /\ last.cfail) =>
        /\ last.ret = NoAdapter
        /\ ~last.raised
        /\ ~InCache(adapters, AdapterKey(models[last.model]))

\* C6: disable_model(m) leaves the cache and every adapter instance as they
\* were (none is closed); after it m is not enabled and get_adapter(m) returns
\* None; an enabled model whose key is cached still gets the cached instance;
\* a second disable_model(m) changes nothing.
C6_DisableKeepsCache ==
    [][ last'.op = "disable" =>
          LET m == last'.model
              again == get_adapter(models', adapters', clients', m, FALSE)
          IN  /\ adapters' = adapters
              /\ clients' = clients
              /\ m \in DOMAIN models' => ~models'[m].enabled
              /\ again.ret = NoAdapter /\ again.adapters = adapters /\ again.clients = clients
              /\ disable_model(models', m) = models'
              /\ \A o \in DOMAIN models' :
                    (models'[o].enabled /\ InCache(adapters, AdapterKey(models'[o]))) =>
                        get_adapter(models', adapters', clients', o, FALSE).ret
                            = CacheGet(adapters, AdapterKey(models'[o])) ]_vars

C6_Witness ==
    /\ last.op = "disable"
    /\ last.model = "m1"
    /\ "m2" \in DOMAIN models
    /\ models["m2"].enabled
    /\ AdapterKey(models["m2"]) = AdapterKey(models["m1"])
    /\ \E p \in issued : p[2] = "m1" /\ p[1] = AdapterKey(models["m1"]) /\ ~clients[p[3]].closed

(***************************************************************************)
(* C7 - C9: authentication                                                 *)
(***************************************************************************)
\* C7 (as stated): a logout that succeeded has put the presented token into
\* the blacklist, and every later authentication of a request that presents a
\* blacklisted token is rejected with 401.
C7_RevokedTokenRejected ==
    /\ (aLast.path = PathLogout /\ aLast.status = 200 /\ aLast.hdr.scheme = "Bearer")
            => aLast.hdr.token.id \in blacklist
    /\ (aLast.authRan /\ aLast.wasRevoked) => aLast.status = 401

\* C8 (as stated): with authentication enabled, a request to a path of the
\* auth-required set is passed on to its handler only with a verified bearer
\* token whose role the permission matrix allows on that path, and is rejected
\* with 401 when the token is missing or invalid.
C8_RequiredPathsChecked ==
    (aCfg.enable_auth /\ aLast.path \in aCfg.auth_required_endpoints) =>
        /\ aLast.passed =>
              /\ aLast.hdr.scheme = "Bearer"
              /\ aLast.hdr.token.defect = "none"
              /\ aLast.user = aLast.hdr.token.role
              /\ check_endpoint_permission(aLast.path, "POST", aLast.user)
        /\ (aLast.hdr.scheme # "Bearer" \/ aLast.hdr.token.defect # "none") =>
              aLast.status = 401

\* C9 (as stated): every rejection of a presented bearer token, whatever is
\* wrong with the token, carries the same status and the same detail.
C9_SameError == Cardinality(aFailures) <= 1

(***************************************************************************)
(* C10: DefineAuthChallenge                                                *)
(***************************************************************************)
\* C10: the handler answers issueTokens=true iff the session holds an entry
\* with challengeName CUSTOM_CHALLENGE and challengeResult true; for every
\* other history it answers challengeName=CUSTOM_CHALLENGE, issueTokens=false,
\* failAuthentication=false; it never answers failAuthentication=true.
C10_DefineChallenge ==
    dPc = "returned" =>
        LET success ==
                /\ ~dSession.isNull
                /\ \E i \in DOMAIN dSession.list :
                      dSession.list[i] = [challengeName |-> "CUSTOM_CHALLENGE",
                                          challengeResult |-> JTrue]
        IN  /\ (dResponse.issueTokens = JTrue) <=> success
            /\ ~success =>
                  /\ dResponse.challengeName = "CUSTOM_CHALLENGE"
                  /\ dResponse.issueTokens = JFalse
            /\ dResponse.failAuthentication = JFalse

C10_Witness ==
    /\ dPc = "returned"
    /\ ~dSession.isNull
    /\ Len(dSession.list) = 2
    /\ dSession.list[1] = [challengeName |-> "CUSTOM_CHALLENGE", challengeResult |-> JFalse]
    /\ dSession.list[2] = [challengeName |-> "CUSTOM_CHALLENGE", challengeResult |-> JTrue]
    /\ dResponse.issueTokens = JTrue

(***************************************************************************)
(* C11: VerifyAuthChallenge                                                *)
(***************************************************************************)
Missing(v) == v.kind # "str" \/ Len(v.s) = 0

\* C11: the handler returns answerCorrect=false whenever the expected code or
\* the answer is empty or missing; in every other case answerCorrect is true
\* iff the two strings are equal character by character.
C11_VerifyAnswer ==
    vPc = "returned" =>
        /\ vResponse.answerCorrect \in {JTrue, JFalse}
        /\ (Missing(vExpected) \/ Missing(vProvided)) => vResponse.answerCorrect = JFalse
        /\ (~Missing(vExpected) /\ ~Missing(vProvided)) =>
              ((vResponse.answerCorrect = JTrue) <=>
                  /\ Len(vProvided.s) = Len(vExpected.s)
                  /\ \A i \in 1..Len(vExpected.s) : vProvided.s[i] = vExpected.s[i])

C11_Witness ==
    /\ vPc = "returned"
    /\ vExpected = Str(<<"a", "1">>)
    /\ vProvided = Str(<<"A", "1">>)
    /\ vResponse.answerCorrect = JFalse

(***************************************************************************)
(* C12 - C14, C19: the chat route                                          *)
(***************************************************************************)
Handled == cResp.status # 0

\* C12 (as stated): a request with an empty message list, with max_tokens not
\* greater than 0 or with a temperature outside [0, 2] gets a client error and
\* no adapter method is called for it.
C12_InvalidNeverDispatched ==
    (/\ Handled
     /\ \/ cReq.nmsgs = 0
        \/ cReq.max_tokens <= 0
        \/ cReq.temperature < 0
        \/ cReq.temperature > TemperatureLimit) =>
        /\ cSent.called = "none"
        /\ cResp.status \in 400..499

\* C13: whatever chat_completion of the adapter raises, the client of a
\* non-streaming request gets status 500 with the one fixed detail, which is
\* the same for every exception; the 404 for a model without adapter is
\* handed on as it is.
C13_GenericInternalError ==
    /\ (cSent.called = "chat_completion" /\ cSent.raised) =>
          /\ cResp.status = 500
          /\ cResp.detail = <<InternalErrorDetail>>
          /\ cResp.usage = ZeroUsage
    /\ (Handled /\ cReq.model_id \notin DOMAIN models /\ cResp.status # 422) =>
          /\ cResp.status = 404
          /\ cResp.detail = <<NotFoundDetail>>

C13_Witness ==
    /\ cSent.called = "chat_completion"
    /\ cSent.raised
    /\ cAnswer.kind = "status"
    /\ cAnswer.status = "401"
    /\ \E i \in DOMAIN cSent.exc : cSent.exc[i] = "401"
    /\ cResp.status = 500

\* C14 (as stated): in a non-streaming response total_tokens is the sum of
\* prompt_tokens and completion_tokens whenever the provider reported both
\* counts, and all three are 0 when the provider reported no usage block.
C14_TotalIsSum ==
    cResp.detail = <<"completion">> =>
        /\ {"prompt", "completion"} \subseteq DOMAIN cAnswer.usage.fields =>
              cResp.usage.total_tokens =
                  cResp.usage.prompt_tokens + cResp.usage.completion_tokens
        /\ ~cAnswer.usage.present => cResp.usage = ZeroUsage

\* C19 (as stated): no provider API key is part of a log record or of the
\* response to the client.
C19_NoKeyInLogsOrResponses ==
    /\ \A rec \in cLog : \A i \in DOMAIN rec : rec[i] \notin ApiKeys
    /\ \A i \in DOMAIN cResp.detail : cResp.detail[i] \notin ApiKeys

(***************************************************************************)
(* C15, C16: close_all and the shutdown                                    *)
(***************************************************************************)
\* C15 (as stated): when close_all is over, by its end or by an exception,
\* the cache is empty; and an adapter that get_adapter returns while no
\* close_all is running has an open HTTP client.
C15_CloseAllEmptiesCache ==
    /\ last.op \in {"close_all_end", "close_all_error"} => adapters = <<>>
    /\ (~closing.active /\ IsLookup(last.op) /\ last.ret # NoAdapter) =>
            ~clients[last.ret].closed

\* C16 (as stated): when the service has shut down, close_all has been called
\* exactly once and every adapter HTTP client created during the run is closed.
C16_AllClosedAtShutdown ==
    svcPhase = "exited" =>
        /\ svcCloseCalls = 1
        /\ \A i \in DOMAIN clients : clients[i].closed

(***************************************************************************)
(* C17: the permission matrix                                              *)
(***************************************************************************)
\* A path is under the prefix P/ of the pattern P/* when it begins with P/.
UnderPrefix(endpoint, pattern) ==
    LET prefix == SubSeq(pattern, 1, Len(pattern) - 1)
    IN  Len(endpoint) >= Len(prefix) /\ \A i \in 1..Len(prefix) : endpoint[i] = prefix[i]

Matches(endpoint, pattern) ==
    \/ pattern = PatternAll
    \/ (Len(pattern) >= 2 /\ pattern[Len(pattern)] = "*" /\ pattern[Len(pattern) - 1] = "/"
            /\ UnderPrefix(endpoint, pattern))
    \/ pattern = endpoint

\* C17 (as stated): a student is permitted on /v1/chat/completions and denied
\* on every path that no student pattern matches; an admin is permitted on
\* every path; a pattern P/* permits exactly the paths that begin with P/; so
\* the result is: some pattern of the role matches the endpoint, whatever the
\* method.
C17_PermissionMatrix ==
    pRole # Null =>
        /\ (pRole = "student" /\ pEndpoint = PathChat) => pResult
        /\ pRole = "admin" => pResult
        /\ pResult <=> \E i \in DOMAIN Permissions(pRole) : Matches(pEndpoint, Permissions(pRole)[i])

(***************************************************************************)
(* C18: the model listing                                                  *)
(***************************************************************************)
\* C18 (as stated): every model id the listing returns is enabled, and
\* get_adapter for it, with a constructor that does not fail, returns an
\* adapter, so a chat completion for it is not answered 404.
C18_ListedModelsResolve ==
    last.op = "list" =>
        \A mid \in last.listed :
            /\ mid \in DOMAIN models
            /\ models[mid].enabled
            /\ get_adapter(models, adapters, clients, mid, FALSE).ret # NoAdapter

(***************************************************************************)
(* C20: a login session                                                    *)
(***************************************************************************)
RoundCorrect(round) ==
    /\ round.code.kind = "str" /\ round.answer.kind = "str"
    /\ round.code.s # <<>>
    /\ round.answer.s = round.code.s

\* C20: tokens are issued only in a session with an earlier round whose answer
\* was the code created for that round; the result recorded for each round is
\* true iff the answer of that round equals the code of that round, so a
\* session whose answers are all wrong, empty or missing never has tokens
\* issued and an answer that is the code of another round does not count.
C20_TokensOnlyAfterCorrectAnswer ==
    /\ Len(lSession) = Len(lRounds)
    /\ \A i \in DOMAIN lRounds :
          (lSession[i].challengeResult = JTrue) <=> RoundCorrect(lRounds[i])
    /\ lPc = "tokens_issued" => \E i \in DOMAIN lRounds : RoundCorrect(lRounds[i])

C20_Witness ==
    /\ lPc = "tokens_issued"
    /\ Len(lRounds) = 2
    /\ lRounds[1].code # lRounds[2].code
    /\ lRounds[1].answer = lRounds[2].code
    /\ lSession[1].challengeResult = JFalse
    /\ lRounds[2].answer = lRounds[2].code

(***************************************************************************)
(* C21: concurrent requests for one cache key                              *)
(***************************************************************************)
Resolved(r) == flight[r].pc \in {"resolved", "failed", "notfound"}

\* C21: whatever the interleaving of the requests in flight with enable and
\* disable, at most one adapter exists per cache key, every client that was
\* constructed is the one in the cache, every cache entry refers to a
\* constructed client, every request that holds an adapter holds the cached
\* instance of its model's key, and a request that resolved an enabled model
\* whose constructor did not fail holds an adapter.
C21_OneAdapterPerKey ==
    /\ \A i, j \in DOMAIN adapters : adapters[i].key = adapters[j].key => i = j
    /\ \A id \in DOMAIN clients : \E i \in DOMAIN adapters : adapters[i].id = id
    /\ \A i \in DOMAIN adapters : adapters[i].id \in DOMAIN clients
    /\ \A r \in Flights :
          flight[r].pc = "resolved" =>
             /\ flight[r].adapter # NoAdapter
             /\ flight[r].adapter = CacheGet(adapters, AdapterKey(models[flight[r].model]))
    /\ \A r \in Flights :
          (Resolved(r) /\ flight[r].enabled /\ ~flight[r].fail) => flight[r].pc = "resolved"
    /\ \A r, q \in Flights :
          (flight[r].pc = "resolved" /\ flight[q].pc = "resolved") =>
             flight[r].adapter = flight[q].adapter

\* two requests for different models of one key are suspended on the same
\* adapter while one of the models has been disabled since
C21_Witness ==
    /\ flight[1].pc = "resolved" /\ flight[2].pc = "resolved"
    /\ flight[1].model # flight[2].model
    /\ flight[1].adapter = flight[2].adapter
    /\ Len(clients) = 1
    /\ ~models[flight[1].model].enabled

(***************************************************************************)
(* C22: close_all interleaved with resolves                                *)
(***************************************************************************)
\* C22: whatever is interleaved with close_all, a lookup never returns an
\* adapter whose HTTP client is closed, and when close_all has ended, either
\* way, no adapter of the cache has a closed client.
C22_NoClosedAdapterServed ==
    /\ (IsLookup(last.op) /\ last.ret # NoAdapter) => ~clients[last.ret].closed
    /\ last.op \in {"close_all_end", "close_all_error"} =>
          \A i \in DOMAIN adapters : ~clients[adapters[i].id].closed

(***************************************************************************)
(* C23: the text deltas of a provider stream                               *)
(***************************************************************************)
WellFormed(variant, line) ==
    line.kind = "chunk" /\ (line.sse <=> variant = "openai_compatible")

IsDoneLine(variant, line) ==
    variant = "openai_compatible" /\ line.sse /\ line.kind = "done"

RECURSIVE ExpectedDeltas(_, _)
ExpectedDeltas(variant, lines) ==
    IF lines = <<>> \/ IsDoneLine(variant, Head(lines)) THEN <<>>
    ELSE (IF WellFormed(variant, Head(lines)) THEN Head(lines).texts ELSE <<>>)
            \o ExpectedDeltas(variant, Tail(lines))

IsPrefix(s, t) == Len(s) <= Len(t) /\ \A i \in 1..Len(s) : s[i] = t[i]

\* C23: the adapter yields the text deltas of the well-formed lines in order,
\* up to the first [DONE] of an SSE stream or the end of the body, skips every
\* other line without raising, and the gateway sends one content-delta frame
\* per fragment in the same order.
C23_DeltasInOrder ==
    /\ tPc # "raised"
    /\ tPc = "reading" => IsPrefix(tOut, ExpectedDeltas(tVariant, tInput))
    /\ tPc = "ended" => tOut = ExpectedDeltas(tVariant, tInput)
    /\ LET sent == SelectSeq(tFrames, LAMBDA f : f.kind = "chunk" /\ f.role = Absent /\ f.content # Absent)
       IN  sent = [i \in 1..Len(tOut) |-> ContentChunk(ParseModel(tVariant), tOut[i])]

(***************************************************************************)
(* C24: the adapter of a model is built from that model's configuration    *)
(***************************************************************************)
\* C24: the adapter a lookup returns is of the variant its model's client_type
\* selects and was built with that model's api_base and api-key reference,
\* and a lookup of an anthropic model returns no adapter, whatever was
\* registered and resolved before.
C24_AdapterMatchesModel ==
    (IsLookup(last.op) /\ last.model \in DOMAIN models) =>
        LET cfg == models[last.model]
        IN  /\ cfg.client_type = "anthropic" => last.ret = NoAdapter
            /\ last.ret # NoAdapter =>
                  /\ clients[last.ret].variant = cfg.client_type
                  /\ clients[last.ret].api_base = cfg.api_base
                  /\ clients[last.ret].api_key_env = cfg.api_key_env

(***************************************************************************)
(* C26: the Gemini translation of a conversation                           *)
(***************************************************************************)
NonSystem(messages) == SelectSeq(messages, LAMBDA msg : msg.role # "system")

GeminiRole(role) == IF role = "assistant" THEN "model" ELSE role

\* C26: the turns are exactly the non-system messages in their order, with
\* assistant renamed to model and the other roles kept; no turn is a system
\* message; the content of every system message is in the system instruction.
C26_GeminiTranslation ==
    gPc = "converted" =>
        /\ gPayload.contents =
              [i \in 1..Len(NonSystem(gMessages)) |->
                  [role |-> GeminiRole(NonSystem(gMessages)[i].role),
                   text |-> NonSystem(gMessages)[i].content]]
        /\ \A i \in DOMAIN gPayload.contents : gPayload.contents[i].role # "system"
        /\ \A i \in DOMAIN gMessages :
              gMessages[i].role = "system" =>
                 \E k \in DOMAIN gPayload.systemInstruction :
                    gPayload.systemInstruction[k] = gMessages[i].content

(***************************************************************************)
(* C27: CreateAuthChallenge and a failing mail dispatch                    *)
(***************************************************************************)
HasEmail(email) == email.kind = "str" /\ email.s # <<>>

EnabledAt(i) == i \in 1..Len(hModels) /\ hModels[i].enabled

\* C28: when health_check_all returns, no key was probed twice, every probe
\* was of a key of an enabled model, every enabled model id stands in the
\* entry of its provider, an entry says "available" only if a probe of that
\* provider returned true, and every provider of an enabled model has an
\* entry whatever happened to the others.
C28_HealthReport ==
    hPc = "done" =>
        /\ \A a, b \in DOMAIN hProbes : hProbes[a].key = hProbes[b].key => a = b
        /\ \A a \in DOMAIN hProbes :
              \E i \in 1..Len(hModels) : EnabledAt(i) /\ AdapterKey(hModels[i]) = hProbes[a].key
        /\ \A i \in 1..Len(hModels) :
              EnabledAt(i) =>
                 \E k \in DOMAIN hStatus[hModels[i].provider].models :
                    hStatus[hModels[i].provider].models[k] = HealthIds[i]
        /\ \A p \in Providers :
              hStatus[p].status = "available" =>
                 \E a \in DOMAIN hProbes : hProbes[a].provider = p /\ hProbes[a].outcome = "true"
        /\ \A i \in 1..Len(hModels) :
              EnabledAt(i) => hStatus[hModels[i].provider].status # "none"

(***************************************************************************)
(* C29, C30: the session table and the per-user index                      *)
(***************************************************************************)
\* C29: after every operation each indexed session id is in the table with
\* that user, each session of the table is in the index of its user, and
\* after a delete_user(u) that returned true the table holds no session of u.
C29_IndexAgreesWithTable ==
    /\ \A u \in UserIds : \A k \in DOMAIN uStore.index[u].ids :
          /\ uStore.table[uStore.index[u].ids[k]].present
          /\ uStore.table[uStore.index[u].ids[k]].user_id = u
    /\ \A sid \in SessionIds :
          uStore.table[sid].present =>
             sid \in Range(uStore.index[uStore.table[sid].user_id].ids)
    /\ (uLast.op = "delete_user" /\ uLast.ok) =>
          \A sid \in SessionIds :
             ~(uStore.table[sid].present /\ uStore.table[sid].user_id = uLast.user_id)

\* C30: get_user_sessions(u) does not raise, returns exactly the sessions of
\* u that have not expired, and leaves no expired session of u in the table
\* or in the index.
C30_ActiveSessionsReturned ==
    uLast.op = "get_user_sessions" =>
        /\ ~uLast.raised
        /\ Range(uLast.sessions) = uLast.active
        /\ \A sid \in SessionIds :
              ~(uStore.table[sid].present /\ uStore.table[sid].user_id = uLast.user_id
                  /\ uStore.table[sid].expired)
        /\ \A k \in DOMAIN uStore.index[uLast.user_id].ids :
              LET sid == uStore.index[uLast.user_id].ids[k]
              IN  uStore.table[sid].present /\ ~uStore.table[sid].expired

(***************************************************************************)
(* C25: no self-service escalation of the role                             *)
(***************************************************************************)
\* guest < student < educator < admin (middleware.py 157-192)
Rank(role) ==
    CASE role = "guest" -> 0 [] role = "student" -> 1 [] role = "educator" -> 2 [] OTHER -> 3

\* C25: whatever the user does after the login callback, the token they hold
\* has a role no more privileged than the one the login assigned, and its
\* institution, if it names one, is the one the login established or a valid
\* enabled one.
C25_NoSelfEscalation ==
    oToken.present =>
        /\ Rank(oToken.role) <= Rank(oLogin.role)
        /\ \/ oToken.institution = NoInstitution
           \/ oToken.institution = oLogin.institution
           \/ ValidInstitution(oToken.institution)

====
